---- MODULE Spec2Model ----
(***************************************************************************)
(* Teloquent: Active Record model lifecycle (Model.ts), query builder      *)
(* (QueryBuilder.ts) and relation engine (relations/*.ts).                 *)
(*                                                                         *)
(* Values are integers: NULL is JavaScript null / SQL NULL, UNSET is a key *)
(* that is absent from an attribute map (JavaScript undefined); ids, names *)
(* and times are positive.                                                 *)
(***************************************************************************)
EXTENDS Integers, Sequences, FiniteSets, TLC

\* ---------------------------------------------------------------- bounds
MaxInst == 1
MaxId == 2
MaxNow == 3
MaxName == 1
MaxClauses == 2
MaxRows == 2
MaxParents == 2
MaxRelated == 3
MaxKey == 2
MaxPivot == 2
MaxScopes == 2
MaxPageSize == 3
MaxChunkRows == 3
MaxTasks == 2

\* ---------------------------------------------------------------- values
NULL == 0
UNSET == 0 - 1

Cols == {"id", "name", "created_at", "updated_at", "deleted_at"}
primaryKey == "id"
CREATED_AT == "created_at"
UPDATED_AT == "updated_at"
DELETED_AT == "deleted_at"

Inst == 1..MaxInst
Ids == 1..MaxId
Names == 1..MaxName

\* `protected attributes: ModelAttributes = {}`
EmptyAttributes == [c \in Cols |-> UNSET]

\* JavaScript `!v` on the values of the model
Falsy(v) == v = NULL \/ v = UNSET

VARIABLES
  usesSoftDeletes,  \* static flag of the entity type
  usesTimestamps,   \* static flag of the entity type
  table,            \* the type's table: id -> row, rows are [Cols -> Int]
  nextId,           \* the store's auto-increment counter
  now,              \* the clock read by `new Date()`
  live,             \* live[i]: instance i has been constructed
  attributes,       \* attributes[i]: the instance's attribute map
  original,         \* original[i]: the snapshot of the last save
  exists,           \* exists[i]
  pkTouched,        \* history: a caller passed the primary key to
                    \*   constructor / fill / setAttribute / update of i
  assignedKey,      \* history: the key i got from an insert or a row
  storedKey,        \* history: the key i's row was last stored under
  insertedRow,      \* history: the row i's first completed insert stored,
                    \*   since i was constructed, found or deleted
  justDeleted,      \* history: the last call on i was a delete() that ran
  last,             \* history: the operation that ran last
  qb,               \* a query specification under construction
  relKind,          \* the kind of the relation R under test
  parentKeys,       \* parentKeys[p]: parent p's join-key attribute
  relatedKeys,      \* relatedKeys[j]: related row j's join column
  pivot,            \* the pivot table: rows [fpk, rpk], in insertion order
  pivotDeclared,    \* R's method declares withPivot(foreignPivotKey)
  joinDetect,       \* knex lists a join as setJoin's test expects it
  cache,            \* cache[p]: entry R of the relation cache of the
                    \*   p-th model returned by with(R).get()
  lazy,             \* lazy[p]: what R's getResults() gave for parent p
  eagerStatus,      \* "none", "ok" or "error": the with(R).get() call
  globalScopes,     \* ScopeManager.globalScopes: class name -> the entries
                    \*   [key, scope] of its Map, in insertion order
  scopeMeta,        \* the 'teloquent:scopes' metadata list of each class
  scopeAdded,       \* history: scopeAdded[t]: keys added through type t
                    \*   and not removed through it since
  scopeCallers,     \* history: the types that called add / remove
  scopeLast,        \* history: the scope operation that ran last
  chunkSize,        \* chunk(count, callback): count
  chunkPage,        \* chunk: the local `page`
  chunkPc,          \* chunk: "idle", "fetch", "callback" or "done"
  chunkItems,       \* chunk: the page fetched last (`items`)
  chunkCalls,       \* history: the [page, items] passed to the callback
  chunkFetches,     \* history: number of page fetches of this chunk call
  chunkRet,         \* what chunk returned
  pending,          \* pending[t]: the sync call task t is suspended in
  pivotLast,        \* history: the pivot store operation that ran last
  relationCount,    \* relationCount[p]: attribute R_count of the p-th model
                    \*   returned by withCount(R).get(); <<>> before the call
  syncLog,          \* history: syncLog[t]: the sync call of task t, with
                    \*   the flags `called` and `done`
  shadow,           \* shadow[p]: the attribute of model p that carries the
                    \*   name of relation R, UNSET when it has none
  stray,            \* stray[p]: the entries of p's relation cache under
                    \*   the names getRelationName() reads off the call stack
  cacheLast,        \* history: what the last read of R returned, and
                    \*   whether it fetched
  connections,      \* Connection.connections: name -> connection, NULL
                    \*   when the name is not registered
  defaultConnection, \* Connection.defaultConnection
  opened,           \* the connections knex() has created so far
  destroyed,        \* the connections destroy() was called on
  connLast,         \* history: the registry call that ran last
  directory,        \* the migration files of the directory
  migrations,       \* the migrations table: rows [id, name, batch] by id
  nextMigrationId,  \* the auto-increment of the migrations table
  migLast,          \* history: the migrator call that ran last, with the
                    \*   table it started from and the one before it
  collItems,        \* Collection.items of the receiver
  collReceived,     \* history: the items the receiver held when chunk ran
  collSize,         \* chunk: the size argument
  collI,            \* chunk: the loop variable i
  collChunks,       \* chunk: the items of the collection being built
  collIterations,   \* chunk: the iterations of the loop so far
  collPc            \* chunk: "idle", "loop", "done" or "outOfMemory"

lifeVars == <<usesSoftDeletes, usesTimestamps, table, nextId, now, live,
              attributes, original, exists, pkTouched, assignedKey, storedKey,
              insertedRow, justDeleted, last>>
relVars == <<relKind, parentKeys, relatedKeys, pivot, pivotDeclared,
             joinDetect, cache, lazy, eagerStatus>>
scopeVars == <<globalScopes, scopeMeta, scopeAdded, scopeCallers, scopeLast>>
chunkVars == <<chunkSize, chunkPage, chunkPc, chunkItems, chunkCalls,
               chunkFetches, chunkRet>>
pivotVars == <<pending, pivotLast>>
countVars == <<relationCount>>
syncVars == <<syncLog>>
cacheVars == <<shadow, stray, cacheLast>>
connVars == <<connections, defaultConnection, opened, destroyed, connLast>>
migVars == <<directory, migrations, nextMigrationId, migLast>>
collVars == <<collItems, collReceived, collSize, collI, collChunks,
              collIterations, collPc>>
auxVars == <<countVars, syncVars, cacheVars, connVars, migVars, collVars>>
auxButCount == <<syncVars, cacheVars, connVars, migVars, collVars>>
auxButSync == <<countVars, cacheVars, connVars, migVars, collVars>>
auxButCache == <<countVars, syncVars, connVars, migVars, collVars>>
auxButConn == <<countVars, syncVars, cacheVars, migVars, collVars>>
auxButMig == <<countVars, syncVars, cacheVars, connVars, collVars>>
auxButColl == <<countVars, syncVars, cacheVars, connVars, migVars>>
nonLifeVars == <<qb, relVars, scopeVars, chunkVars, pivotVars, auxVars>>
nonQueryVars == <<lifeVars, relVars, scopeVars, chunkVars, pivotVars, auxVars>>
nonRelVars == <<lifeVars, qb, scopeVars, chunkVars, pivotVars, auxVars>>
coreVars == <<lifeVars, qb, relVars, scopeVars, chunkVars, pivotVars>>
vars == <<coreVars, auxVars>>

\* ------------------------------------------------- query specifications
\* One where-clause of the underlying knex query, with its connector.
Clause(bool, kind, col, vals) ==
  [bool |-> bool, kind |-> kind, col |-> col, vals |-> vals]

\* SQL truth of one predicate on a row (unknown counts as false)
Holds(row, c) ==
  CASE c.kind = "eq" -> row[c.col] # NULL /\ row[c.col] \in c.vals
    [] c.kind = "in" -> row[c.col] # NULL /\ row[c.col] \in c.vals
    [] c.kind = "notin" -> row[c.col] # NULL /\ row[c.col] \notin c.vals
    [] c.kind = "null" -> row[c.col] = NULL
    [] c.kind = "notnull" -> row[c.col] # NULL

\* `where c1 and c2 or c3 ...` as the store reads it: AND binds tighter
\* than OR, and the clauses are emitted flat, without parentheses.
RECURSIVE EvalFrom(_, _, _, _, _)
EvalFrom(row, cs, i, cur, acc) ==
  IF i > Len(cs) THEN acc \/ cur
  ELSE IF cs[i].bool = "or"
       THEN EvalFrom(row, cs, i + 1, Holds(row, cs[i]), acc \/ cur)
       ELSE EvalFrom(row, cs, i + 1, cur /\ Holds(row, cs[i]), acc)

EvalWhere(row, cs) ==
  IF cs = <<>> THEN TRUE ELSE EvalFrom(row, cs, 2, Holds(row, cs[1]), FALSE)

\* QueryBuilder.getBaseQuery
getBaseQuery ==
  IF usesSoftDeletes THEN <<Clause("and", "null", DELETED_AT, {})>> ELSE <<>>

\* QueryBuilder.constructor / Model.query: a new query specification
query ==
  [wheres |-> getBaseQuery, order |-> "none", limit |-> UNSET, offset |-> UNSET]

\* a two-argument knex where: a null value becomes whereNull
whereClause(bool, col, v) ==
  IF v = NULL THEN Clause(bool, "null", col, {}) ELSE Clause(bool, "eq", col, {v})

\* QueryBuilder.where(column, value)
where(q, col, v) == [q EXCEPT !.wheres = Append(@, whereClause("and", col, v))]

\* QueryBuilder.orWhere(column, value)
orWhere(q, col, v) == [q EXCEPT !.wheres = Append(@, whereClause("or", col, v))]

\* QueryBuilder.whereIn / whereNotIn / whereNull / whereNotNull
whereIn(q, col, vals) == [q EXCEPT !.wheres = Append(@, Clause("and", "in", col, vals))]
whereNotIn(q, col, vals) == [q EXCEPT !.wheres = Append(@, Clause("and", "notin", col, vals))]
whereNull(q, col) == [q EXCEPT !.wheres = Append(@, Clause("and", "null", col, {}))]
whereNotNull(q, col) == [q EXCEPT !.wheres = Append(@, Clause("and", "notnull", col, {}))]

\* QueryBuilder.orderBy / limit / offset / clone
orderBy(q, dir) == [q EXCEPT !.order = dir]
limit(q, n) == [q EXCEPT !.limit = n]
offset(q, n) == [q EXCEPT !.offset = n]
clone(q) == q

\* forPage starting one page too far
forPageSkipping(q, page, perPage) == limit(offset(q, page * perPage), perPage)

\* QueryBuilder.forPage
forPage(q, page, perPage) == limit(offset(q, (page - 1) * perPage), perPage)

\* ids of the rows of t the where-clauses of q select
Matching(t, q) == {id \in DOMAIN t : EvalWhere(t[id], q.wheres)}

Min(a, b) == IF a <= b THEN a ELSE b
Max(a, b) == IF a >= b THEN a ELSE b

\* the ids of S in the order the store returns them
RECURSIVE Ordered(_, _)
Ordered(S, dir) ==
  IF S = {} THEN <<>>
  ELSE LET x == IF dir = "desc"
                THEN CHOOSE m \in S : \A o \in S : m >= o
                ELSE CHOOSE m \in S : \A o \in S : m <= o
       IN <<x>> \o Ordered(S \ {x}, dir)

\* the limit / offset window of a result
Window(seq, off, lim) ==
  LET from == IF off = UNSET THEN 0 ELSE off
      upto == IF lim = UNSET THEN Len(seq) ELSE Min(Len(seq), from + lim)
  IN SubSeq(seq, from + 1, upto)

\* QueryBuilder.get: the ids of the rows returned, in order
get(t, q) == Window(Ordered(Matching(t, q), q.order), q.offset, q.limit)

\* QueryBuilder.first: knex first() is limit 1; NULL when there is no row
first(t, q) ==
  LET rows == Window(Ordered(Matching(t, q), q.order), q.offset, 1)
  IN IF rows = <<>> THEN NULL ELSE rows[1]

\* QueryBuilder.find
find(t, q, id) == first(t, where(q, primaryKey, id))

\* QueryBuilder.count: `count(* as count)` then first()
count(t, q) ==
  IF q.offset # UNSET /\ q.offset > 0 THEN 0 ELSE Cardinality(Matching(t, q))

Range(seq) == {seq[n] : n \in 1..Len(seq)}

\* ------------------------------------------------------------ the store
\* an update that writes no column
ApplyUpdateNone(row, values) == row

\* knex update(values): the SET list holds the keys present in `values`
ApplyUpdate(row, values) ==
  [c \in Cols |-> IF values[c] # UNSET THEN values[c] ELSE row[c]]

\* QueryBuilder.update on the rows q selects
StoreUpdate(t, q, values) ==
  [id \in DOMAIN t |-> IF id \in Matching(t, q) THEN ApplyUpdate(t[id], values) ELSE t[id]]

\* QueryBuilder.delete on the rows q selects
StoreDelete(t, q) ==
  [id \in DOMAIN t \ Matching(t, q) |-> t[id]]

\* the row an insert stores: absent columns are NULL
NewRow(values, id) ==
  [c \in Cols |-> IF c = primaryKey THEN id
                  ELSE IF values[c] = UNSET THEN NULL ELSE values[c]]

\* the id an insert of `values` uses: the given one, else the counter
InsertId(values) ==
  IF Falsy(values[primaryKey]) THEN nextId ELSE values[primaryKey]

\* ------------------------------------------------------------ the model
\* Model.getAttribute(key, defaultValue = null)
getAttribute(attrs, key) == IF attrs[key] # UNSET THEN attrs[key] ELSE NULL

\* Model.getKey
getKey(attrs) == getAttribute(attrs, primaryKey)

\* Model.fill: setAttribute for every key of `given`
fill(attrs, given) ==
  [c \in Cols |-> IF given[c] # UNSET THEN given[c] ELSE attrs[c]]

\* Model.save lines 338-340: the updated column is stamped on the copy made
\* by getAttributes() when it holds no value yet
stampUpdated(a, t) ==
  IF Falsy(a[UPDATED_AT]) THEN [a EXCEPT ![UPDATED_AT] = t] ELSE a

\* Model.save lines 334-336
stampCreated(a, ex, t) ==
  IF ~ex /\ Falsy(a[CREATED_AT]) THEN [a EXCEPT ![CREATED_AT] = t] ELSE a

\* Model.save lines 325-341: the values handed to insert / update
saveValues(attrs, ex, t) ==
  IF usesTimestamps THEN stampUpdated(stampCreated(attrs, ex, t), t) ELSE attrs

\* assignKey with the generated key never stored on the instance
assignKeyDropped(attrs, ex, id, idReturned) ==
  [attributes |-> attrs, exists |-> idReturned \/ ex]

\* assignKey without its `id !== undefined` test
assignKeyAlways(attrs, ex, id, idReturned) ==
  [attributes |-> [attrs EXCEPT ![primaryKey] = id], exists |-> TRUE]

\* Model.save lines 351-355: `const [id] = ...; if (id !== undefined) {...}`
assignKey(attrs, ex, id, idReturned) ==
  IF idReturned
  THEN [attributes |-> [attrs EXCEPT ![primaryKey] = id], exists |-> TRUE]
  ELSE [attributes |-> attrs, exists |-> ex]

\* Model.save line 359: `this.original = { ...this.attributes }`
snapshot(attrs) == attrs

\* Model.save on an instance (attrs, orig, ex) at time t; idReturned tells
\* whether the store's insert hands back a generated identifier.
save(attrs, orig, ex, t, idReturned) ==
  LET values == saveValues(attrs, ex, t)
  IN IF ex
     THEN LET id == getKey(attrs)
          IN [table |-> StoreUpdate(table, where(query, primaryKey, id), values),
              nextId |-> nextId, attributes |-> attrs, original |-> snapshot(attrs),
              exists |-> ex, ret |-> "ok", path |-> "update", rowId |-> id]
     ELSE LET id == InsertId(values)
              keyed == assignKey(attrs, ex, id, idReturned)
          IN IF id \in DOMAIN table
             THEN \* the store rejects a duplicate key: insert throws
                  [table |-> table, nextId |-> nextId, attributes |-> attrs,
                   original |-> orig, exists |-> ex, ret |-> "error",
                   path |-> "insert", rowId |-> NULL]
             ELSE [table |-> [r \in DOMAIN table \cup {id} |->
                                IF r = id THEN NewRow(values, id) ELSE table[r]],
                   nextId |-> Max(nextId, id + 1),
                   attributes |-> keyed.attributes,
                   original |-> snapshot(keyed.attributes),
                   exists |-> keyed.exists, ret |-> "ok",
                   path |-> "insert", rowId |-> id]

\* Model.delete line 394
existsAfterDelete(soft) == FALSE

\* QueryBuilder.hydrate: `new this.model(result)` then setExists(true)
hydrate(row) ==
  [attributes |-> fill(EmptyAttributes, row), original |-> EmptyAttributes,
   exists |-> TRUE]

\* the rows of a default get(): Type.query().get()
DefaultGet == Range(get(table, query))

\* ------------------------------------------------------------ relations
\* a relation value: what getResults() returns / the relation cache holds
Many(items) == [tag |-> "many", items |-> items]
One(j) == [tag |-> "one", items |-> <<j>>]
Null == [tag |-> "null", items |-> <<>>]
Unset == [tag |-> "unset", items |-> <<>>]
Failed == [tag |-> "error", items |-> <<>>]

\* no relation under test
RelIdle ==
  /\ relKind = "none"
  /\ parentKeys = <<>>
  /\ relatedKeys = <<>>
  /\ pivot = <<>>
  /\ pivotDeclared = FALSE
  /\ joinDetect = FALSE
  /\ cache = <<>>
  /\ lazy = <<>>
  /\ eagerStatus = "none"

Keys == 1..MaxKey

\* join column of the related rows, and the pivot's parent-key column
JoinCol == "k"
foreignPivotKey == "fpk"

\* the related type's table
relTable == [j \in 1..Len(relatedKeys) |-> [id |-> j, k |-> relatedKeys[j]]]

\* BelongsToMany.setJoin's join: related rows joined to the pivot rows whose
\* related-key column equals the related key, listed by related row, then
\* by pivot row
JoinIds ==
  {(j - 1) * Len(pivot) + n : j \in 1..Len(relatedKeys), n \in 1..Len(pivot)}

joinRel(x) == ((x - 1) \div Len(pivot)) + 1
joinPiv(x) == ((x - 1) % Len(pivot)) + 1

joinTable ==
  [x \in {y \in JoinIds : /\ relatedKeys[joinRel(y)] # NULL
                          /\ relatedKeys[joinRel(y)] = pivot[joinPiv(y)].rpk} |->
     [id |-> x, k |-> relatedKeys[joinRel(x)],
      fpk |-> pivot[joinPiv(x)].fpk, rpk |-> pivot[joinPiv(x)].rpk]]

\* the keys addEagerConstraints / getCountQuery collect from the parents
eagerKeys == {parentKeys[p] : p \in 1..Len(parentKeys)} \ {NULL}

\* HasOne.addConstraints, HasMany.addConstraints
hasAddConstraints(q, kp) == where(q, JoinCol, kp)

\* HasOne.addEagerConstraints, HasMany.addEagerConstraints and
\* BelongsTo.addEagerConstraints
addEagerConstraints(q) == whereIn(q, JoinCol, eagerKeys)

\* BelongsTo.addConstraints
belongsToAddConstraints(q, kp) == IF kp # NULL THEN where(q, JoinCol, kp) ELSE q

\* the constructors of HasOne / HasMany / BelongsTo: the relation's query
hasNew(kp) == hasAddConstraints(query, kp)
belongsToNew(kp) == belongsToAddConstraints(query, kp)

\* BelongsToMany.setJoin on a relation r = [q, joins, pivotColumns,
\* pivotSelected]
setJoin(r) ==
  IF r.joins > 0 /\ joinDetect THEN r
  ELSE [r EXCEPT !.joins = @ + 1, !.pivotSelected = @ \/ r.pivotColumns]

\* BelongsToMany.addConstraints
belongsToManyAddConstraints(r, kp) ==
  IF kp # NULL
  THEN [setJoin(r) EXCEPT !.q = where(@, foreignPivotKey, kp)]
  ELSE r

\* BelongsToMany.addEagerConstraints
belongsToManyAddEagerConstraints(r) ==
  [setJoin(r) EXCEPT !.q = whereIn(@, foreignPivotKey, eagerKeys)]

\* BelongsToMany.withPivot(foreignPivotKey)
withPivot(r) == [r EXCEPT !.pivotColumns = TRUE]

\* Model.belongsToMany, as the relation method of the parent calls it
belongsToManyNew(kp) ==
  LET r == belongsToManyAddConstraints(
             [q |-> query, joins |-> 0, pivotColumns |-> FALSE,
              pivotSelected |-> FALSE], kp)
  IN IF pivotDeclared THEN withPivot(r) ELSE r

\* the rows a BelongsToMany query fetches: ids of joinTable, or of relTable
\* when no join was set
belongsToManyRows(r) ==
  IF r.joins = 0 THEN get(relTable, r.q) ELSE get(joinTable, r.q)

belongsToManyRel(r, x) == IF r.joins = 0 THEN x ELSE joinRel(x)

\* the related models hydrated from fetched rows
belongsToManyModels(r, rows) ==
  [n \in 1..Len(rows) |-> belongsToManyRel(r, rows[n])]

\* Relation.getResults for parent key kp: addConstraints, then
\* getResultsQuery
getResults(kind, kp) ==
  CASE kind = "hasMany" ->
         Many(get(relTable, hasAddConstraints(hasNew(kp), kp)))
    [] kind = "hasOne" ->
         LET j == first(relTable, hasAddConstraints(hasNew(kp), kp))
         IN IF j = NULL THEN Null ELSE One(j)
    [] kind = "belongsTo" ->
         LET j == first(relTable, belongsToAddConstraints(belongsToNew(kp), kp))
         IN IF j = NULL THEN Null ELSE One(j)
    [] kind = "belongsToMany" ->
         LET r == belongsToManyAddConstraints(belongsToManyNew(kp), kp)
         IN IF r.joins > 1 THEN Failed
            ELSE Many(belongsToManyModels(r, belongsToManyRows(r)))

\* HasMany.matchResults for one parent: results are related ids
hasManyMatch(results, kp) ==
  IF kp # NULL /\ \E n \in 1..Len(results) : relatedKeys[results[n]] = kp
  THEN Many(SelectSeq(results, LAMBDA j : relatedKeys[j] = kp))
  ELSE Many(<<>>)

\* HasOne.matchResults, BelongsTo.matchResults for one parent: the
\* dictionary keeps the last result of each key
singleMatch(results, kp) ==
  LET hits == SelectSeq(results, LAMBDA j : relatedKeys[j] # NULL /\ relatedKeys[j] = kp)
  IN IF kp # NULL /\ hits # <<>> THEN One(hits[Len(hits)]) ELSE Null

\* BelongsToMany.matchResults for one parent: results are ids of joinTable;
\* the dictionary is keyed by the results' pivot_<foreignPivotKey> attribute
belongsToManyMatch(r, results, kp) ==
  LET hits == SelectSeq(results, LAMBDA x : r.pivotSelected /\ joinTable[x].fpk = kp)
  IN IF kp # NULL /\ hits # <<>>
     THEN Many(belongsToManyModels(r, hits))
     ELSE Many(<<>>)

\* QueryBuilder.loadRelations + Relation.eagerLoadRelation for relation R:
\* the relation instance is the one the first model's method returns
eagerLoadRelation(kind) ==
  LET k1 == parentKeys[1]
      P == 1..Len(parentKeys)
  IN CASE kind = "hasMany" ->
            LET res == get(relTable, addEagerConstraints(hasNew(k1)))
            IN [status |-> "ok",
                cache |-> [p \in P |-> hasManyMatch(res, parentKeys[p])]]
       [] kind = "hasOne" ->
            LET res == get(relTable, addEagerConstraints(hasNew(k1)))
            IN [status |-> "ok",
                cache |-> [p \in P |-> singleMatch(res, parentKeys[p])]]
       [] kind = "belongsTo" ->
            LET res == get(relTable, addEagerConstraints(belongsToNew(k1)))
            IN [status |-> "ok",
                cache |-> [p \in P |-> singleMatch(res, parentKeys[p])]]
       [] kind = "belongsToMany" ->
            LET r == belongsToManyAddEagerConstraints(belongsToManyNew(k1))
                res == belongsToManyRows(r)
            IN IF r.joins > 1
               THEN [status |-> "error", cache |-> [p \in P |-> Unset]]
               ELSE [status |-> "ok",
                     cache |-> [p \in P |-> belongsToManyMatch(r, res, parentKeys[p])]]

\* getCountQuery of HasOne, HasMany and BelongsTo: the related type's rows
\* whose join column is one of the parents' keys, counted per join column
\* (a fresh query of the related type, not the relation's own query)
getCountQuery(kq) ==
  LET rows == get(relTable, whereIn(query, JoinCol, eagerKeys))
  IN Cardinality({n \in 1..Len(rows) : relatedKeys[rows[n]] = kq})

\* BelongsToMany.getCountQuery: the rows of the pivot table alone whose
\* parent-key column is one of the parents' keys, counted per parent key
belongsToManyGetCountQuery(kq) ==
  Cardinality({n \in 1..Len(pivot) : pivot[n].fpk \in eagerKeys /\ pivot[n].fpk = kq})

\* matchCounts for one parent: results[key] when the key is set and the
\* entry is truthy, otherwise 0
matchCounts(results, kp) ==
  IF kp # NULL /\ kp \in DOMAIN results /\ results[kp] # 0 THEN results[kp] ELSE 0

\* QueryBuilder.loadCounts + Relation.eagerLoadCount for relation R: the
\* value of R_count of every model
eagerLoadCount(kind) ==
  LET results == [kq \in Keys |->
                    IF kind = "belongsToMany" THEN belongsToManyGetCountQuery(kq)
                    ELSE getCountQuery(kq)]
  IN [p \in 1..Len(parentKeys) |-> matchCounts(results, parentKeys[p])]

\* ------------------------------------------------- the relation cache
\* the names getRelationName() reads off the fourth line of the call stack
\* after create()'s await: "async" for an awaiting caller, else 'unknown'
StackNames == {"async", "unknown"}

\* what the accessor returns for an attribute
Attribute(v) == [tag |-> "attribute", items |-> <<v>>]

\* Model.getRelation on the entry e of the cache: `this.relations[key] || null`
getRelation(e) == IF e = Unset THEN Null ELSE e

\* Model.__get(R) that fetches whatever the cache holds
magicGetRefetch(attrR, e, kp) ==
  IF attrR # UNSET
  THEN [ret |-> Attribute(attrR), fetched |-> FALSE, relation |-> e]
  ELSE [ret |-> getResults(relKind, kp), fetched |-> TRUE,
        relation |-> getResults(relKind, kp)]

\* Model.__get(R) on an instance whose attribute named R is attrR, whose
\* cache entry R is e and whose join key is kp: the value returned, whether
\* the relation was fetched, and the entry left
magicGet(attrR, e, kp) ==
  IF attrR # UNSET
  THEN [ret |-> Attribute(attrR), fetched |-> FALSE, relation |-> e]
  ELSE IF e # Unset
  THEN [ret |-> getRelation(e), fetched |-> FALSE, relation |-> e]
  ELSE [ret |-> getResults(relKind, kp), fetched |-> TRUE,
        relation |-> getResults(relKind, kp)]

\* HasMany.create lines 178-187 on the entry e found under the stack's name
\* and the new related row j
createPush(e, j) ==
  IF getRelation(e).tag = "many" THEN Many(Append(getRelation(e).items, j)) ELSE Many(<<j>>)

\* ---------------------------------------------- the connection registry
\* the environments knexfile configures
Environments == {"development"}

\* Connection.addConnection on the registry cs: the connection registered
\* under the name is destroyed, the new connection c takes its place
addConnection(cs, gone, name, c) ==
  [connections |-> [cs EXCEPT ![name] = c],
   destroyed |-> IF cs[name] # NULL THEN gone \cup {cs[name]} ELSE gone]

\* Connection.initialize(env): the connection c is registered as 'default'
initialize(cs, gone, env, c) ==
  IF env \in Environments
  THEN LET r == addConnection(cs, gone, "default", c)
       IN [connections |-> r.connections, destroyed |-> r.destroyed, ret |-> "void"]
  ELSE [connections |-> cs, destroyed |-> gone, ret |-> "error"]

\* `name || this.defaultConnection`; "" stands for an omitted name
resolve(dflt, name) == IF name = "" THEN dflt ELSE name

\* Connection.getConnection(name): the registry left, what the call returns
\* ("conn" with the connection, "undefined", or "error") and whether a
\* connection was created
getConnection(cs, gone, dflt, name, c) ==
  LET connectionName == resolve(dflt, name)
  IN IF cs[connectionName] # NULL
     THEN [connections |-> cs, destroyed |-> gone, ret |-> "conn",
           conn |-> cs[connectionName], created |-> FALSE]
     ELSE IF connectionName = dflt
     THEN LET r == initialize(cs, gone, "development", c)
          IN [connections |-> r.connections, destroyed |-> r.destroyed,
              ret |-> IF r.connections[connectionName] # NULL THEN "conn" ELSE "undefined",
              conn |-> r.connections[connectionName], created |-> TRUE]
     ELSE [connections |-> cs, destroyed |-> gone, ret |-> "error",
           conn |-> NULL, created |-> FALSE]

\* ------------------------------------------------------------ migrator
MaxMigrations == 2

\* migration files: a migration name (1, 2, ... in name order) and an
\* extension; "1.js" sorts before "1.ts"
Extensions == <<"js", "ts">>
MigrationFiles ==
  [n \in 1..(2 * MaxMigrations) |->
     [name |-> (n + 1) \div 2, ext |-> Extensions[((n + 1) % 2) + 1]]]

\* Migrator.getMigrationFiles: the .js and .ts files, sorted
getMigrationFiles(dir) == SelectSeq(MigrationFiles, LAMBDA f : f \in dir)

\* Migrator.getPendingMigrations: the files whose name is not in the table
getPendingMigrations(dir, ran) ==
  SelectSeq(getMigrationFiles(dir),
            LAMBDA f : \A n \in 1..Len(ran) : ran[n].name # f.name)

\* Migrator.getLastBatchNumber: max(batch), null for an empty table
getLastBatchNumber(ran) ==
  IF ran = <<>> THEN NULL
  ELSE CHOOSE b \in {ran[n].batch : n \in 1..Len(ran)} :
         \A n \in 1..Len(ran) : ran[n].batch <= b

\* Migrator.getLastBatchMigrations: the rows of the last batch, by id
\* descending
RECURSIVE Reverse(_)
Reverse(q) == IF q = <<>> THEN <<>> ELSE Append(Reverse(Tail(q)), Head(q))

getLastBatchMigrations(ran) ==
  LET batch == getLastBatchNumber(ran)
  IN IF batch = 0 THEN <<>>
     ELSE Reverse(SelectSeq(ran, LAMBDA row : batch # NULL /\ row.batch = batch))

\* the loop of migrate(): up() and logMigration for each pending file; the
\* up() of the failAt-th file throws
RECURSIVE migrateLoop(_, _, _, _, _, _)
migrateLoop(files, n, failAt, ran, id, batch) ==
  IF n > Len(files)
  THEN [migrations |-> ran, nextMigrationId |-> id, threw |-> FALSE]
  ELSE IF n = failAt
  THEN [migrations |-> ran, nextMigrationId |-> id, threw |-> TRUE]
  ELSE migrateLoop(files, n + 1, failAt,
                   Append(ran, [id |-> id, name |-> files[n].name, batch |-> batch]),
                   id + 1, batch)

\* Migrator.migrate
migrate(dir, ran, id, failAt) ==
  LET pendingFiles == getPendingMigrations(dir, ran)
      batch == getLastBatchNumber(ran) + 1
      r == migrateLoop(pendingFiles, 1, failAt, ran, id, batch)
  IN IF Len(pendingFiles) = 0
     THEN [migrations |-> ran, nextMigrationId |-> id, threw |-> FALSE,
           bodyThrew |-> FALSE, ret |-> <<>>]
     ELSE [migrations |-> r.migrations, nextMigrationId |-> r.nextMigrationId,
           threw |-> r.threw, bodyThrew |-> r.threw,
           ret |-> [n \in 1..(Len(r.migrations) - Len(ran)) |->
                      r.migrations[Len(ran) + n].name]]

\* the loop of rollback(): loadMigration(`${name}.ts`), down() and
\* removeMigration(name) for each row; the down() of the failAt-th row throws
RECURSIVE rollbackLoop(_, _, _, _, _, _)
rollbackLoop(rows, n, failAt, dir, ran, downs) ==
  IF n > Len(rows)
  THEN [migrations |-> ran, downs |-> downs, threw |-> FALSE, bodyThrew |-> FALSE]
  ELSE IF [name |-> rows[n].name, ext |-> "ts"] \notin dir
  THEN [migrations |-> ran, downs |-> downs, threw |-> TRUE, bodyThrew |-> FALSE]
  ELSE IF n = failAt
  THEN [migrations |-> ran, downs |-> downs, threw |-> TRUE, bodyThrew |-> TRUE]
  ELSE rollbackLoop(rows, n + 1, failAt, dir,
                    SelectSeq(ran, LAMBDA row : row.name # rows[n].name),
                    Append(downs, rows[n].name))

\* Migrator.rollback
rollback(dir, ran, failAt) ==
  rollbackLoop(getLastBatchMigrations(ran), 1, failAt, dir, ran, <<>>)

\* ---------------------------------------------------------- collections
\* Array.prototype.slice(start, end): a negative index counts from the end,
\* both are clamped to the array
sliceIndex(len, k) ==
  IF k < 0 THEN (IF len + k < 0 THEN 0 ELSE len + k)
  ELSE IF k > len THEN len ELSE k

slice(q, start, end) ==
  LET from == sliceIndex(Len(q), start)
      to == sliceIndex(Len(q), end)
  IN IF to <= from THEN <<>> ELSE SubSeq(q, from + 1, to)

\* ------------------------------------------------------ the scope manager
\* model classes; className is `modelClass.name`
Types == {"UserA", "UserB", "Post"}
className(t) == IF t = "Post" THEN "Post" ELSE "User"

\* scopes handed to addGlobalScope: an instance of class ActiveScope, a
\* named function and an anonymous callback; each injects where(col, val)
ActiveScope == [kind |-> "object", name |-> "ActiveScope", col |-> "name", val |-> 1]
recentScope == [kind |-> "callback", name |-> "recent", col |-> primaryKey, val |-> 1]
anonymousScope == [kind |-> "callback", name |-> "", col |-> "name", val |-> NULL]
Scopes == {ActiveScope, recentScope, anonymousScope}

\* the optional `name` argument ("" when omitted)
ScopeNames == {"", "active"}

\* `scope_${Date.now()}` for the millisecond ms of the call
timeKey(ms) == IF ms = 1 THEN "scope_1" ELSE "scope_2"

\* `scope.constructor` of a scope object
constructorOf(scope) == "class ActiveScope"

\* ScopeManager.addGlobalScope lines 64-66: the key of the scope
scopeKey(scope, name, ms) ==
  IF scope.kind = "callback"
  THEN IF name # "" THEN name
       ELSE IF scope.name # "" THEN scope.name ELSE timeKey(ms)
  ELSE constructorOf(scope)

ScopeKeys == {"active", "recent", "scope_1", "scope_2", "class ActiveScope"}

\* a JavaScript Map as the sequence of its entries, in insertion order
mapHas(m, k) == \E n \in 1..Len(m) : m[n].key = k

mapSet(m, k, v) ==
  IF mapHas(m, k)
  THEN [n \in 1..Len(m) |-> IF m[n].key = k THEN [key |-> k, scope |-> v] ELSE m[n]]
  ELSE Append(m, [key |-> k, scope |-> v])

mapDelete(m, k) == SelectSeq(m, LAMBDA e : e.key # k)

mapKeys(m) == {m[n].key : n \in 1..Len(m)}

\* ScopeManager.addGlobalScope on the registry gs
addGlobalScope(gs, t, scope, name, ms) ==
  LET modelName == className(t)
      modelScopes == IF modelName \in DOMAIN gs THEN gs[modelName] ELSE <<>>
  IN [n \in DOMAIN gs \cup {modelName} |->
        IF n = modelName
        THEN mapSet(modelScopes, scopeKey(scope, name, ms), scope)
        ELSE gs[n]]

\* ScopeManager.removeGlobalScope: the registry left and the value returned
removeGlobalScope(gs, t, k) ==
  LET modelName == className(t)
  IN IF modelName \notin DOMAIN gs
     THEN [globalScopes |-> gs, ret |-> FALSE]
     ELSE [globalScopes |-> [gs EXCEPT ![modelName] = mapDelete(@, k)],
           ret |-> mapHas(gs[modelName], k)]

\* ScopeManager.getGlobalScopes: a copy of the type's Map
getGlobalScopes(gs, t) ==
  IF className(t) \notin DOMAIN gs THEN <<>> ELSE gs[className(t)]

\* `scope(builder)` / `scope.apply(builder)`
applyScope(q, scope) == where(q, scope.col, scope.val)

\* the forEach of ScopeManager.applyGlobalScopes, from entry n on
RECURSIVE applyEach(_, _, _, _)
applyEach(q, m, n, excludedScopes) ==
  IF n > Len(m) THEN q
  ELSE applyEach(IF m[n].key \in excludedScopes THEN q ELSE applyScope(q, m[n].scope),
                 m, n + 1, excludedScopes)

\* ScopeManager.applyGlobalScopes
applyGlobalScopes(q, gs, t, excludedScopes) ==
  IF className(t) \notin DOMAIN gs THEN q
  ELSE applyEach(q, gs[className(t)], 1, excludedScopes)

\* the members of class QueryBuilder
QueryBuilderMembers ==
  {"model", "query", "eagerLoad", "eagerLoadCount", "constructor",
   "getBaseQuery", "hydrate", "hydrateMany", "loadRelations", "loadCounts",
   "find", "findMany", "where", "whereIn", "whereNotIn", "whereNull",
   "whereNotNull", "orWhere", "orderBy", "limit", "offset", "with",
   "withCount", "first", "get", "all", "chunk", "clone", "forPage", "count",
   "insert", "update", "delete", "truncate", "toSql", "getQuery"}

\* calling builder.<member>(...): a name the class does not define is
\* undefined, and calling it throws
invoke(member) == IF member \in QueryBuilderMembers THEN "ok" ELSE "TypeError"

\* decorators/Scope.ts line 32: the decorator's target is the class for a
\* static method and the prototype for an instance method; the constructor
\* of a class is Function, the constructor of a prototype is the class
targetConstructorIsFunction(isStatic) == isStatic

\* the function Scope() returns, applied to a method of class t: the
\* metadata list left and whether it threw
scopeDecorator(meta, t, isStatic, propertyKey) ==
  IF targetConstructorIsFunction(isStatic)
  THEN [scopeMeta |-> meta, ret |-> "Error"]
  ELSE [scopeMeta |-> [meta EXCEPT ![t] = Append(@, propertyKey)], ret |-> "ok"]

\* getScopeMetadata(class)
getScopeMetadata(meta, t) == meta[t]

\* the local scopes class TestUser declares: admin and withRole carry
\* @Scope(), scopeManager carries the `scope` prefix (scope name "manager")
LocalScopes == {"admin", "manager", "withRole"}

\* the transform of a local scope: query.where('role', ...)
localScope(q, member, role) ==
  IF member = "admin" THEN where(q, "name", 1)
  ELSE IF member = "manager" THEN where(q, "name", 2)
  ELSE where(q, "name", role)

NoScopeOp == [op |-> "none", type |-> "none", key |-> "", ret |-> "none",
              excluded |-> {}, registered |-> FALSE, static |-> FALSE]

ScopeIdle ==
  /\ globalScopes = <<>>
  /\ scopeMeta = [t \in Types |-> <<>>]
  /\ scopeAdded = [t \in Types |-> {}]
  /\ scopeCallers = {}
  /\ scopeLast = NoScopeOp

\* ----------------------------------------------------------- idle parts
Tasks == 1..MaxTasks

\* the columns of the pivot table: the parent key, the related key and one
\* further column
relatedPivotKey == "rpk"
PivotCols == {foreignPivotKey, relatedPivotKey, "x"}

\* `attributes = {}`: no pivot attribute given
NoAttributes == [c \in PivotCols |-> UNSET]

NoSync == [pc |-> "idle", parent |-> 0, ids |-> <<>>, extra |-> NoAttributes,
           disturbed |-> FALSE]

NoPivotOp == [op |-> "none", parent |-> 0, ids |-> <<>>,
              extra |-> NoAttributes, serial |-> TRUE]

ChunkIdle ==
  /\ chunkSize = 0
  /\ chunkPage = 1
  /\ chunkPc = "idle"
  /\ chunkItems = <<>>
  /\ chunkCalls = <<>>
  /\ chunkFetches = 0
  /\ chunkRet = "none"

PivotIdle ==
  /\ pending = [t \in Tasks |-> NoSync]
  /\ pivotLast = NoPivotOp

\* no count requested
CountIdle == relationCount = <<>>

\* no concurrent sync recorded
NoSyncLog == [called |-> FALSE, done |-> FALSE, parent |-> 0, ids |-> <<>>]
SyncLogIdle == syncLog = [t \in Tasks |-> NoSyncLog]

\* no relation read through the accessor
NoRead == [ret |-> Unset, fetched |-> FALSE]
CacheIdle == shadow = <<>> /\ stray = <<>> /\ cacheLast = NoRead

\* the connection registry as the class is loaded
ConnNames == {"default", "reports"}
NoConnOp == [op |-> "none", name |-> "", resolved |-> "", ret |-> "none", conn |-> NULL]
ConnIdle ==
  /\ connections = [n \in ConnNames |-> NULL]
  /\ defaultConnection = "default"
  /\ opened = 0
  /\ destroyed = {}
  /\ connLast = NoConnOp

\* an empty migration directory and no migrations table yet
NoMigOp ==
  [op |-> "none", ret |-> <<>>, threw |-> FALSE, bodyThrew |-> FALSE,
   downs |-> <<>>, before |-> <<>>, dir |-> {}, prev |-> "none",
   prevRet |-> <<>>,
   prevBodyThrew |-> FALSE, prevBefore |-> <<>>]
MigIdle ==
  /\ directory = {}
  /\ migrations = <<>>
  /\ nextMigrationId = 1
  /\ migLast = NoMigOp

\* no chunk call on the collection
ChunkCallIdle ==
  /\ collReceived = <<>>
  /\ collSize = 1
  /\ collI = 0
  /\ collChunks = <<>>
  /\ collIterations = 0
  /\ collPc = "idle"
CollIdle == collItems = <<>> /\ ChunkCallIdle

\* the parts no specification above drives
AuxIdle ==
  CountIdle /\ SyncLogIdle /\ CacheIdle /\ ConnIdle /\ MigIdle /\ CollIdle

\* ------------------------------------------------- pivot operations
\* the record attach stores for one id: the attributes are spread last
attachRecord(parentId, id, extra) ==
  [c \in PivotCols |->
     IF extra[c] # UNSET THEN extra[c]
     ELSE IF c = foreignPivotKey THEN parentId
     ELSE IF c = relatedPivotKey THEN id
     ELSE NULL]

\* BelongsToMany.formatAttachRecords for the id array ids
formatAttachRecords(parentId, ids, extra) ==
  IF parentId = NULL THEN <<>>
  ELSE LET given == SelectSeq(ids, LAMBDA id : id # NULL)
       IN [n \in 1..Len(given) |-> attachRecord(parentId, given[n], extra)]

\* BelongsToMany.attach on the pivot table pv
attach(pv, parentId, ids, extra) ==
  pv \o formatAttachRecords(parentId, ids, extra)

\* a match that forgets the parent
pivotMatchAnyParent(row, parentId, given, ids) ==
  given => (row[relatedPivotKey] # NULL /\ row[relatedPivotKey] \in Range(ids))

\* the rows `where(foreignPivotKey, parentId)` and, when ids is given
\* (not null), `whereIn(relatedPivotKey, ids)` select
pivotMatch(row, parentId, given, ids) ==
  /\ row[foreignPivotKey] = parentId
  /\ given => (row[relatedPivotKey] # NULL /\ row[relatedPivotKey] \in Range(ids))

\* a detach that deletes nothing
detachNothing(pv, parentId, given, ids) == pv

\* BelongsToMany.detach; without ids it detaches every row of the parent
detach(pv, parentId, given, ids) ==
  SelectSeq(pv, LAMBDA row : ~pivotMatch(row, parentId, given, ids))

\* BelongsToMany.updateExistingPivot
updateExistingPivot(pv, parentId, ids, extra) ==
  IF extra = NoAttributes THEN pv
  ELSE [n \in 1..Len(pv) |->
          IF pivotMatch(pv[n], parentId, TRUE, ids)
          THEN [c \in PivotCols |-> IF extra[c] # UNSET THEN extra[c] ELSE pv[n][c]]
          ELSE pv[n]]

\* BelongsToMany.sync line 328: whether the attach runs
syncAttaches(ids) == Len(ids) > 0

\* ---------------------------------------------------------- the history
NoOp == [op |-> "none", inst |-> 0, ret |-> "none", path |-> "none",
         rowId |-> NULL, idReturned |-> FALSE, preExists |-> FALSE,
         prePk |-> UNSET, afterDelete |-> FALSE]

Done(op, i, ret, path, rowId, idReturned) ==
  [op |-> op, inst |-> i, ret |-> ret, path |-> path, rowId |-> rowId,
   idReturned |-> idReturned, preExists |-> exists[i],
   prePk |-> attributes[i][primaryKey], afterDelete |-> justDeleted[i]]

\* what callers pass to the constructor, fill and update
GivenAttrs ==
  {[c \in Cols |-> IF c = primaryKey THEN k ELSE IF c = "name" THEN n ELSE UNSET] :
     k \in {UNSET} \cup Ids, n \in {UNSET} \cup Names}

InitQb == [wheres |-> <<>>, order |-> "none", limit |-> UNSET, offset |-> UNSET]

\* ---------------------------------------------------- lifecycle actions
InitLife ==
  /\ usesSoftDeletes \in BOOLEAN
  /\ usesTimestamps \in BOOLEAN
  /\ table = <<>>
  /\ nextId = 1
  /\ now = 0
  /\ live = [i \in Inst |-> FALSE]
  /\ attributes = [i \in Inst |-> EmptyAttributes]
  /\ original = [i \in Inst |-> EmptyAttributes]
  /\ exists = [i \in Inst |-> FALSE]
  /\ pkTouched = [i \in Inst |-> FALSE]
  /\ assignedKey = [i \in Inst |-> NULL]
  /\ storedKey = [i \in Inst |-> NULL]
  /\ insertedRow = [i \in Inst |-> NULL]
  /\ justDeleted = [i \in Inst |-> FALSE]
  /\ last = NoOp

\* i = new Type(given)
New(i, given) ==
  /\ live' = [live EXCEPT ![i] = TRUE]
  /\ attributes' = [attributes EXCEPT ![i] = fill(EmptyAttributes, given)]
  /\ original' = [original EXCEPT ![i] = EmptyAttributes]
  /\ exists' = [exists EXCEPT ![i] = FALSE]
  /\ pkTouched' = [pkTouched EXCEPT ![i] = given[primaryKey] # UNSET]
  /\ assignedKey' = [assignedKey EXCEPT ![i] = NULL]
  /\ storedKey' = [storedKey EXCEPT ![i] = NULL]
  /\ insertedRow' = [insertedRow EXCEPT ![i] = NULL]
  /\ justDeleted' = [justDeleted EXCEPT ![i] = FALSE]
  /\ last' = Done("new", i, "ok", "none", NULL, FALSE)
  /\ UNCHANGED <<usesSoftDeletes, usesTimestamps, table, nextId, now, nonLifeVars>>

\* i.setAttribute(key, v)
SetAttribute(i, key, v) ==
  /\ live[i]
  /\ attributes' = [attributes EXCEPT ![i][key] = v]
  /\ pkTouched' = [pkTouched EXCEPT ![i] = @ \/ key = primaryKey]
  /\ justDeleted' = [justDeleted EXCEPT ![i] = FALSE]
  /\ last' = Done("setAttribute", i, "ok", "none", NULL, FALSE)
  /\ UNCHANGED <<usesSoftDeletes, usesTimestamps, table, nextId, now, live,
                 original, exists, assignedKey, storedKey, insertedRow, nonLifeVars>>

\* i.fill(given)
Fill(i, given) ==
  /\ live[i]
  /\ attributes' = [attributes EXCEPT ![i] = fill(@, given)]
  /\ pkTouched' = [pkTouched EXCEPT ![i] = @ \/ given[primaryKey] # UNSET]
  /\ justDeleted' = [justDeleted EXCEPT ![i] = FALSE]
  /\ last' = Done("fill", i, "ok", "none", NULL, FALSE)
  /\ UNCHANGED <<usesSoftDeletes, usesTimestamps, table, nextId, now, live,
                 original, exists, assignedKey, storedKey, insertedRow, nonLifeVars>>

\* the common part of save() and update(): `filled` is the attribute map
\* save() starts from
RunSave(op, i, filled, idReturned) ==
  LET r == save(filled, original[i], exists[i], now + 1, idReturned)
  IN /\ live[i]
     /\ now < MaxNow
     /\ exists[i] \/ InsertId(saveValues(filled, FALSE, now + 1)) <= MaxId
     /\ now' = now + 1
     /\ table' = r.table
     /\ nextId' = r.nextId
     /\ attributes' = [attributes EXCEPT ![i] = r.attributes]
     /\ original' = [original EXCEPT ![i] = r.original]
     /\ exists' = [exists EXCEPT ![i] = r.exists]
     /\ assignedKey' = [assignedKey EXCEPT ![i] =
          IF r.path = "insert" /\ r.ret = "ok" /\ idReturned /\ @ = NULL
          THEN r.rowId ELSE @]
     /\ storedKey' = [storedKey EXCEPT ![i] =
          IF r.path = "insert" /\ r.ret = "ok" /\ idReturned THEN r.rowId ELSE @]
     /\ insertedRow' = [insertedRow EXCEPT ![i] =
          IF r.path = "insert" /\ r.ret = "ok" /\ @ = NULL THEN r.rowId ELSE @]
     /\ justDeleted' = [justDeleted EXCEPT ![i] = FALSE]
     /\ last' = Done(op, i, r.ret, r.path, r.rowId, idReturned)
     /\ UNCHANGED <<usesSoftDeletes, usesTimestamps, live, nonLifeVars>>

\* i.save()
Save(i, idReturned) ==
  /\ RunSave("save", i, attributes[i], idReturned)
  /\ UNCHANGED pkTouched

\* i.update(given): fill(given) then save()
Update(i, given, idReturned) ==
  /\ RunSave("update", i, fill(attributes[i], given), idReturned)
  /\ pkTouched' = [pkTouched EXCEPT ![i] = @ \/ given[primaryKey] # UNSET]

\* i.delete(); the clock is read on the soft path only
Delete(i) ==
  LET cs == where(query, primaryKey, getKey(attributes[i]))
      t == now + 1
  IN /\ live[i]
     /\ IF ~exists[i]
        THEN /\ UNCHANGED <<table, exists, now, insertedRow>>
             /\ justDeleted' = [justDeleted EXCEPT ![i] = FALSE]
             /\ last' = Done("delete", i, "false", "none", NULL, FALSE)
        ELSE /\ usesSoftDeletes => now < MaxNow
             /\ now' = IF usesSoftDeletes THEN t ELSE now
             /\ table' = IF usesSoftDeletes
                         THEN StoreUpdate(table, cs, [EmptyAttributes EXCEPT ![DELETED_AT] = t])
                         ELSE StoreDelete(table, cs)
             /\ exists' = [exists EXCEPT ![i] = existsAfterDelete(usesSoftDeletes)]
             /\ justDeleted' = [justDeleted EXCEPT ![i] = TRUE]
             /\ insertedRow' = [insertedRow EXCEPT ![i] = NULL]
             /\ last' = Done("delete", i, "true",
                             IF usesSoftDeletes THEN "soft" ELSE "hard",
                             getKey(attributes[i]), FALSE)
     /\ UNCHANGED <<usesSoftDeletes, usesTimestamps, nextId, live, attributes,
                    original, pkTouched, assignedKey, storedKey, nonLifeVars>>

\* the SET list of restore(): { deleted_at: null }
RestoreValues(row) == [row EXCEPT ![DELETED_AT] = NULL]

\* i.restore()
Restore(i) ==
  LET cs == where(query, primaryKey, getKey(attributes[i]))
  IN /\ live[i]
     /\ IF ~exists[i] \/ ~usesSoftDeletes
        THEN /\ UNCHANGED <<table, attributes>>
             /\ last' = Done("restore", i, "false", "none", NULL, FALSE)
        ELSE /\ table' = [id \in DOMAIN table |->
                            IF id \in Matching(table, cs)
                            THEN RestoreValues(table[id]) ELSE table[id]]
             /\ attributes' = [attributes EXCEPT ![i][DELETED_AT] = NULL]
             /\ last' = Done("restore", i, "true", "none",
                             getKey(attributes[i]), FALSE)
     /\ justDeleted' = [justDeleted EXCEPT ![i] = FALSE]
     /\ UNCHANGED <<usesSoftDeletes, usesTimestamps, nextId, now, live, original,
                    exists, pkTouched, assignedKey, storedKey, insertedRow, nonLifeVars>>

\* i = await Type.find(id)
Find(i, id) ==
  LET rid == find(table, query, id)
      h == hydrate(table[rid])
  IN /\ IF rid = NULL
        THEN /\ live' = [live EXCEPT ![i] = FALSE]
             /\ attributes' = [attributes EXCEPT ![i] = EmptyAttributes]
             /\ original' = [original EXCEPT ![i] = EmptyAttributes]
             /\ exists' = [exists EXCEPT ![i] = FALSE]
             /\ assignedKey' = [assignedKey EXCEPT ![i] = NULL]
             /\ storedKey' = [storedKey EXCEPT ![i] = NULL]
             /\ last' = Done("find", i, "null", "none", NULL, FALSE)
        ELSE /\ live' = [live EXCEPT ![i] = TRUE]
             /\ attributes' = [attributes EXCEPT ![i] = h.attributes]
             /\ original' = [original EXCEPT ![i] = h.original]
             /\ exists' = [exists EXCEPT ![i] = h.exists]
             /\ assignedKey' = [assignedKey EXCEPT ![i] = rid]
             /\ storedKey' = [storedKey EXCEPT ![i] = rid]
             /\ last' = Done("find", i, "found", "none", rid, FALSE)
     /\ pkTouched' = [pkTouched EXCEPT ![i] = FALSE]
     /\ justDeleted' = [justDeleted EXCEPT ![i] = FALSE]
     /\ insertedRow' = [insertedRow EXCEPT ![i] = NULL]
     /\ UNCHANGED <<usesSoftDeletes, usesTimestamps, table, nextId, now, nonLifeVars>>

\* no instance, an empty table
LifeIdle ==
  /\ usesSoftDeletes = FALSE
  /\ usesTimestamps = FALSE
  /\ table = <<>>
  /\ nextId = 1
  /\ now = 0
  /\ live = [i \in Inst |-> FALSE]
  /\ attributes = [i \in Inst |-> EmptyAttributes]
  /\ original = [i \in Inst |-> EmptyAttributes]
  /\ exists = [i \in Inst |-> FALSE]
  /\ pkTouched = [i \in Inst |-> FALSE]
  /\ assignedKey = [i \in Inst |-> NULL]
  /\ storedKey = [i \in Inst |-> NULL]
  /\ insertedRow = [i \in Inst |-> NULL]
  /\ justDeleted = [i \in Inst |-> FALSE]
  /\ last = NoOp

Init ==
  /\ InitLife
  /\ qb = InitQb
  /\ RelIdle
  /\ ScopeIdle /\ ChunkIdle /\ PivotIdle /\ AuxIdle

Next ==
  \/ \E i \in Inst, g \in GivenAttrs : New(i, g)
  \/ \E i \in Inst, v \in Ids : SetAttribute(i, primaryKey, v)
  \/ \E i \in Inst, v \in Names : SetAttribute(i, "name", v)
  \/ \E i \in Inst, g \in GivenAttrs : Fill(i, g)
  \/ \E i \in Inst, b \in BOOLEAN : Save(i, b)
  \/ \E i \in Inst, g \in GivenAttrs, b \in BOOLEAN : Update(i, g, b)
  \/ \E i \in Inst : Delete(i)
  \/ \E i \in Inst : Restore(i)
  \/ \E i \in Inst, id \in Ids : Find(i, id)

Spec == Init /\ [][Next]_vars

\* ------------------------------------------------ query-builder actions
\* the rows a query runs against
QueryRow(id, deletedAt) ==
  [c \in Cols |-> CASE c = primaryKey -> id
                    [] c = "name" -> IF id = 1 THEN 1 ELSE NULL
                    [] c = DELETED_AT -> deletedAt
                    [] OTHER -> NULL]

QueryTables ==
  {[id \in 1..MaxRows |-> QueryRow(id, d[id])] : d \in [1..MaxRows -> {NULL, 1}]}

InitQuery ==
  /\ usesSoftDeletes \in BOOLEAN
  /\ usesTimestamps = FALSE
  /\ table \in QueryTables
  /\ nextId = MaxRows + 1
  /\ now = 1
  /\ live = [i \in Inst |-> FALSE]
  /\ attributes = [i \in Inst |-> EmptyAttributes]
  /\ original = [i \in Inst |-> EmptyAttributes]
  /\ exists = [i \in Inst |-> FALSE]
  /\ pkTouched = [i \in Inst |-> FALSE]
  /\ assignedKey = [i \in Inst |-> NULL]
  /\ storedKey = [i \in Inst |-> NULL]
  /\ insertedRow = [i \in Inst |-> NULL]
  /\ justDeleted = [i \in Inst |-> FALSE]
  /\ last = NoOp
  /\ qb = query
  /\ RelIdle
  /\ ScopeIdle /\ ChunkIdle /\ PivotIdle /\ AuxIdle

CanRefine == Len(qb.wheres) < Len(getBaseQuery) + MaxClauses

QueryCols == {primaryKey, "name"}
QueryVals == {NULL} \cup 1..MaxRows

\* Type.query()
QNew == qb' = query /\ qb # query /\ UNCHANGED nonQueryVars

QWhere(col, v) == CanRefine /\ qb' = where(qb, col, v) /\ UNCHANGED nonQueryVars

QOrWhere(col, v) == CanRefine /\ qb' = orWhere(qb, col, v) /\ UNCHANGED nonQueryVars

QWhereIn(col, vals) == CanRefine /\ qb' = whereIn(qb, col, vals) /\ UNCHANGED nonQueryVars

QWhereNotIn(col, vals) == CanRefine /\ qb' = whereNotIn(qb, col, vals) /\ UNCHANGED nonQueryVars

QWhereNull(col) == CanRefine /\ qb' = whereNull(qb, col) /\ UNCHANGED nonQueryVars

QWhereNotNull(col) == CanRefine /\ qb' = whereNotNull(qb, col) /\ UNCHANGED nonQueryVars

QOrderBy(dir) == qb.order # dir /\ qb' = orderBy(qb, dir) /\ UNCHANGED nonQueryVars

QLimit(n) == qb.limit # n /\ qb' = limit(qb, n) /\ UNCHANGED nonQueryVars

QOffset(n) == qb.offset # n /\ qb' = offset(qb, n) /\ UNCHANGED nonQueryVars

QClone == qb' = clone(qb) /\ UNCHANGED nonQueryVars

NextQuery ==
  \/ QNew
  \/ \E c \in QueryCols, v \in QueryVals : QWhere(c, v)
  \/ \E c \in QueryCols, v \in QueryVals : QOrWhere(c, v)
  \/ \E vs \in SUBSET (1..MaxRows) : QWhereIn(primaryKey, vs)
  \/ \E vs \in SUBSET (1..MaxRows) : QWhereNotIn(primaryKey, vs)
  \/ \E c \in QueryCols \cup {DELETED_AT} : QWhereNull(c)
  \/ \E c \in QueryCols \cup {DELETED_AT} : QWhereNotNull(c)
  \/ \E d \in {"asc", "desc"} : QOrderBy(d)
  \/ \E n \in 1..MaxRows : QLimit(n)
  \/ \E n \in 1..MaxRows : QOffset(n)
  \/ QClone

SpecQuery == InitQuery /\ [][NextQuery]_vars

\* ---------------------------------------------------- relation actions
SeqsUpTo(S, n) == UNION {[1..m -> S] : m \in 0..n}

PivotRows == [fpk : Keys, rpk : Keys]

InitRel ==
  /\ LifeIdle
  /\ qb = InitQb
  /\ relKind \in {"hasOne", "hasMany", "belongsTo", "belongsToMany"}
  /\ parentKeys \in SeqsUpTo({NULL} \cup Keys, MaxParents) \ {<<>>}
  /\ relatedKeys \in SeqsUpTo({NULL} \cup Keys, MaxRelated)
  /\ pivot \in IF relKind = "belongsToMany" THEN SeqsUpTo(PivotRows, MaxPivot) ELSE {<<>>}
  /\ pivotDeclared \in IF relKind = "belongsToMany" THEN BOOLEAN ELSE {FALSE}
  /\ joinDetect \in IF relKind = "belongsToMany" THEN BOOLEAN ELSE {FALSE}
  /\ cache = [p \in 1..Len(parentKeys) |-> Unset]
  /\ lazy = [p \in 1..Len(parentKeys) |-> Unset]
  /\ eagerStatus = "none"
  /\ ScopeIdle /\ ChunkIdle /\ PivotIdle /\ AuxIdle

\* models = await Parent.query().with(R).get()
EagerGet ==
  /\ eagerStatus = "none"
  /\ eagerStatus' = eagerLoadRelation(relKind).status
  /\ cache' = eagerLoadRelation(relKind).cache
  /\ UNCHANGED <<relKind, parentKeys, relatedKeys, pivot, pivotDeclared,
                 joinDetect, lazy, nonRelVars>>

\* await parent_p.R().getResults()
LazyResolve(p) ==
  /\ lazy[p] = Unset
  /\ lazy' = [lazy EXCEPT ![p] = getResults(relKind, parentKeys[p])]
  /\ UNCHANGED <<relKind, parentKeys, relatedKeys, pivot, pivotDeclared,
                 joinDetect, cache, eagerStatus, nonRelVars>>

NextRel ==
  \/ EagerGet
  \/ \E p \in 1..Len(parentKeys) : LazyResolve(p)

SpecRel == InitRel /\ [][NextRel]_vars

\* ------------------------------------------------------- count actions
\* models = await Parent.query().withCount(R).get()
WithCountGet ==
  /\ relationCount = <<>>
  /\ relationCount' = eagerLoadCount(relKind)
  /\ UNCHANGED <<coreVars, auxButCount>>

NextCount ==
  \/ WithCountGet
  \/ EagerGet

SpecCount == InitRel /\ [][NextCount]_vars

\* ----------------------------------------------- relation cache actions
\* the values callers hand to setRelation(R, v)
SetValues == {Null, Many(<<>>)}

\* the attributes a caller passes: a name, neither the key nor R
NameOnly == {g \in GivenAttrs : g[primaryKey] = UNSET /\ g["name"] # UNSET}

\* the related rows the store holds at most
MaxCacheRows == 1

\* the first model is a constructed, unsaved instance; the clock leaves
\* room for one save
InitCacheLife ==
  /\ usesSoftDeletes = FALSE
  /\ usesTimestamps = FALSE
  /\ table = <<>>
  /\ nextId = 1
  /\ now = MaxNow - 1
  /\ live = [i \in Inst |-> i = 1]
  /\ attributes = [i \in Inst |-> EmptyAttributes]
  /\ original = [i \in Inst |-> EmptyAttributes]
  /\ exists = [i \in Inst |-> FALSE]
  /\ pkTouched = [i \in Inst |-> FALSE]
  /\ assignedKey = [i \in Inst |-> NULL]
  /\ storedKey = [i \in Inst |-> NULL]
  /\ insertedRow = [i \in Inst |-> NULL]
  /\ justDeleted = [i \in Inst |-> FALSE]
  /\ last = NoOp

InitCache ==
  /\ InitCacheLife
  /\ qb = InitQb
  /\ relKind \in {"hasOne", "hasMany", "belongsTo"}
  /\ parentKeys = <<1, 2>>
  /\ relatedKeys = <<>>
  /\ pivot = <<>>
  /\ pivotDeclared = FALSE
  /\ joinDetect = FALSE
  /\ cache = [p \in 1..Len(parentKeys) |-> Unset]
  /\ lazy = [p \in 1..Len(parentKeys) |-> Unset]
  /\ eagerStatus = "none"
  /\ ScopeIdle /\ ChunkIdle /\ PivotIdle
  /\ CountIdle /\ SyncLogIdle /\ ConnIdle /\ MigIdle /\ CollIdle
  /\ shadow = [p \in 1..Len(parentKeys) |-> UNSET]
  /\ stray = [p \in 1..Len(parentKeys) |-> [n \in StackNames |-> Unset]]
  /\ cacheLast = NoRead

\* await model_p.__get(R)
MagicGet(p) ==
  LET r == magicGet(shadow[p], cache[p], parentKeys[p])
  IN /\ cache' = [cache EXCEPT ![p] = r.relation]
     /\ cacheLast' = [ret |-> r.ret, fetched |-> r.fetched]
     /\ UNCHANGED <<relKind, parentKeys, relatedKeys, pivot, pivotDeclared,
                    joinDetect, lazy, eagerStatus, shadow, stray,
                    lifeVars, qb, scopeVars, chunkVars, pivotVars, auxButCache>>

\* model_p.setRelation(R, v)
SetRelation(p, v) ==
  /\ cache' = [cache EXCEPT ![p] = v]
  /\ UNCHANGED <<relKind, parentKeys, relatedKeys, pivot, pivotDeclared,
                 joinDetect, lazy, eagerStatus, cacheVars,
                 lifeVars, qb, scopeVars, chunkVars, pivotVars, auxButCache>>

\* model_p.setAttribute(R, v), or fill / update with an attribute named R
SetAttributeNamedR(p, v) ==
  /\ shadow' = [shadow EXCEPT ![p] = v]
  /\ UNCHANGED <<relVars, stray, cacheLast,
                 lifeVars, qb, scopeVars, chunkVars, pivotVars, auxButCache>>

\* another instance stores a related row with join column k
StoreRelated(k) ==
  /\ Len(relatedKeys) < MaxCacheRows
  /\ relatedKeys' = Append(relatedKeys, k)
  /\ UNCHANGED <<relKind, parentKeys, pivot, pivotDeclared, joinDetect, cache,
                 lazy, eagerStatus, cacheVars,
                 lifeVars, qb, scopeVars, chunkVars, pivotVars, auxButCache>>

\* await model_p.R().create({}), called from a frame the stack names n
Create(p, n) ==
  /\ relKind = "hasMany"
  /\ Len(relatedKeys) < MaxCacheRows
  /\ relatedKeys' = Append(relatedKeys, parentKeys[p])
  /\ stray' = [stray EXCEPT ![p][n] = createPush(@, Len(relatedKeys) + 1)]
  /\ UNCHANGED <<relKind, parentKeys, pivot, pivotDeclared, joinDetect, cache,
                 lazy, eagerStatus, shadow, cacheLast,
                 lifeVars, qb, scopeVars, chunkVars, pivotVars, auxButCache>>

\* the models are the ones with(R).get() returns: loadRelations runs on
\* models hydrated by that get(), before any caller holds them
EagerGetFresh ==
  /\ \A p \in 1..Len(parentKeys) : cache[p] = Unset
  /\ EagerGet

\* the calls on the models and on the store that a cached relation lives
\* through; the lifecycle calls are those of the first model
NextCache ==
  \/ \E p \in 1..Len(parentKeys) : MagicGet(p)
  \/ EagerGetFresh
  \/ \E p \in 1..Len(parentKeys), v \in SetValues : SetRelation(p, v)
  \/ \E p \in 1..Len(parentKeys) : SetAttributeNamedR(p, 1)
  \/ \E k \in Keys : StoreRelated(k)
  \/ \E p \in 1..Len(parentKeys), n \in StackNames : Create(p, n)
  \/ \E g \in NameOnly : Fill(1, g)
  \/ \E v \in Names : SetAttribute(1, "name", v)
  \/ Save(1, TRUE)
  \/ \E g \in NameOnly : Update(1, g, TRUE)
  \/ Delete(1)

SpecCache == InitCache /\ [][NextCache]_vars

\* ----------------------------------------- connection registry actions
MaxConn == 3

ConnDone(op, name, ret, c) ==
  [op |-> op, name |-> name, resolved |-> resolve(defaultConnection, name),
   ret |-> ret, conn |-> c]

\* Connection.initialize(env)
Initialize(env) ==
  LET r == initialize(connections, destroyed, env, opened + 1)
  IN /\ opened < MaxConn
     /\ connections' = r.connections
     /\ destroyed' = r.destroyed
     /\ opened' = IF r.ret = "error" THEN opened ELSE opened + 1
     /\ connLast' = ConnDone("initialize", "default", r.ret, NULL)
     /\ UNCHANGED <<defaultConnection, coreVars, auxButConn>>

\* Connection.addConnection(name, config)
AddConnection(name) ==
  LET r == addConnection(connections, destroyed, name, opened + 1)
  IN /\ opened < MaxConn
     /\ connections' = r.connections
     /\ destroyed' = r.destroyed
     /\ opened' = opened + 1
     /\ connLast' = ConnDone("addConnection", name, "void", NULL)
     /\ UNCHANGED <<defaultConnection, coreVars, auxButConn>>

\* Connection.setDefaultConnection(name)
SetDefaultConnection(name) ==
  /\ defaultConnection' = IF connections[name] # NULL THEN name ELSE defaultConnection
  /\ connLast' = ConnDone("setDefaultConnection", name,
                          IF connections[name] # NULL THEN "void" ELSE "error", NULL)
  /\ UNCHANGED <<connections, opened, destroyed, coreVars, auxButConn>>

\* Connection.close(name)
Close(name) ==
  /\ connections' = [connections EXCEPT ![name] = NULL]
  /\ destroyed' = IF connections[name] # NULL
                  THEN destroyed \cup {connections[name]} ELSE destroyed
  /\ connLast' = ConnDone("close", name, "void", NULL)
  /\ UNCHANGED <<defaultConnection, opened, coreVars, auxButConn>>

\* Connection.closeAll()
CloseAll ==
  /\ connections' = [n \in ConnNames |-> NULL]
  /\ destroyed' = destroyed \cup ({connections[n] : n \in ConnNames} \ {NULL})
  /\ connLast' = ConnDone("closeAll", "", "void", NULL)
  /\ UNCHANGED <<defaultConnection, opened, coreVars, auxButConn>>

\* Connection.getConnection(name); "" is the call without a name
GetConnection(name) ==
  LET r == getConnection(connections, destroyed, defaultConnection, name, opened + 1)
  IN /\ r.created => opened < MaxConn
     /\ connections' = r.connections
     /\ destroyed' = r.destroyed
     /\ opened' = IF r.created THEN opened + 1 ELSE opened
     /\ connLast' = ConnDone("getConnection", name, r.ret, r.conn)
     /\ UNCHANGED <<defaultConnection, coreVars, auxButConn>>

NextConn ==
  \/ \E env \in Environments \cup {"staging"} : Initialize(env)
  \/ \E name \in ConnNames : AddConnection(name)
  \/ \E name \in ConnNames : SetDefaultConnection(name)
  \/ \E name \in ConnNames : Close(name)
  \/ CloseAll
  \/ \E name \in ConnNames \cup {""} : GetConnection(name)

\* the registry as the class is loaded: no connection, default 'default'
InitConn ==
  /\ LifeIdle
  /\ qb = InitQb
  /\ RelIdle
  /\ ScopeIdle /\ ChunkIdle /\ PivotIdle /\ AuxIdle

SpecConn == InitConn /\ [][NextConn]_vars

\* ------------------------------------------------------ migrator actions
\* the rows the migrations table holds at most, and the ids it hands out
MaxLogged == 3
MaxMigrationId == 4

InitMig ==
  /\ LifeIdle
  /\ qb = InitQb
  /\ RelIdle
  /\ ScopeIdle /\ ChunkIdle /\ PivotIdle /\ AuxIdle

MigDone(op, ret, threw, bodyThrew, downs) ==
  [op |-> op, ret |-> ret, threw |-> threw, bodyThrew |-> bodyThrew,
   downs |-> downs, before |-> migrations, dir |-> directory,
   prev |-> migLast.op,
   prevRet |-> migLast.ret, prevBodyThrew |-> migLast.bodyThrew,
   prevBefore |-> migLast.before]

\* a migration file is written to the directory
AddFile(f) ==
  /\ f \notin directory
  /\ directory' = directory \cup {f}
  /\ UNCHANGED <<migrations, nextMigrationId, migLast, coreVars, auxButMig>>

\* await migrator.migrate(); the up() of the failAt-th pending file throws
Migrate(failAt) ==
  LET r == migrate(directory, migrations, nextMigrationId, failAt)
  IN /\ failAt <= Len(getPendingMigrations(directory, migrations))
     /\ Len(r.migrations) <= MaxLogged
     /\ r.nextMigrationId <= MaxMigrationId + 1
     /\ migrations' = r.migrations
     /\ nextMigrationId' = r.nextMigrationId
     /\ migLast' = MigDone("migrate", r.ret, r.threw, r.bodyThrew, <<>>)
     /\ UNCHANGED <<directory, coreVars, auxButMig>>

\* await migrator.rollback(); the down() of the failAt-th row throws
Rollback(failAt) ==
  LET r == rollback(directory, migrations, failAt)
  IN /\ failAt <= Len(getLastBatchMigrations(migrations))
     /\ migrations' = r.migrations
     /\ migLast' = MigDone("rollback", r.downs, r.threw, r.bodyThrew, r.downs)
     /\ UNCHANGED <<directory, nextMigrationId, coreVars, auxButMig>>

NextMig ==
  \/ \E n \in 1..Len(MigrationFiles) : AddFile(MigrationFiles[n])
  \/ \E failAt \in 0..MaxMigrations : Migrate(failAt)
  \/ \E failAt \in 0..MaxMigrations : Rollback(failAt)

SpecMig == InitMig /\ [][NextMig]_vars

\* --------------------------------------------------- collection actions
MaxItems == 3
MaxSize == 2
\* the chunks the heap has room for
MaxHeapChunks == 5

CollElements == {1, 2}
Collections ==
  UNION {[1..n -> CollElements] : n \in 0..MaxItems}

\* new Collection(items)
InitColl ==
  /\ LifeIdle
  /\ qb = InitQb
  /\ RelIdle
  /\ ScopeIdle /\ ChunkIdle /\ PivotIdle
  /\ CountIdle /\ SyncLogIdle /\ CacheIdle /\ ConnIdle /\ MigIdle
  /\ collItems \in Collections
  /\ ChunkCallIdle

\* collection.chunk(size) is called: `const chunks = new Collection()` and
\* `let i = 0`
CollectionChunk(size) ==
  /\ collPc \in {"idle", "done"}
  /\ collReceived' = collItems
  /\ collSize' = size
  /\ collI' = 0
  /\ collChunks' = <<>>
  /\ collIterations' = 0
  /\ collPc' = "loop"
  /\ UNCHANGED <<collItems, coreVars, auxButColl>>

\* one test of `i < this.items.length`: an iteration of the body and
\* `i += size`, or `return chunks`; a push the heap has no room for ends the
\* process
CollectionChunkLoop ==
  /\ collPc = "loop"
  /\ IF collI < Len(collItems)
     THEN IF Len(collChunks) < MaxHeapChunks
          THEN /\ collChunks' = Append(collChunks,
                                       slice(collItems, collI, collI + collSize))
               /\ collI' = collI + collSize
               /\ collIterations' = collIterations + 1
               /\ UNCHANGED collPc
          ELSE /\ collPc' = "outOfMemory"
               /\ UNCHANGED <<collChunks, collI, collIterations>>
     ELSE /\ collPc' = "done"
          /\ UNCHANGED <<collChunks, collI, collIterations>>
  /\ UNCHANGED <<collItems, collReceived, collSize, coreVars, auxButColl>>

NextColl ==
  \/ \E size \in (0 - MaxSize)..MaxSize : CollectionChunk(size)
  \/ CollectionChunkLoop

\* the loop of chunk runs to its end without yielding
SpecColl == InitColl /\ [][NextColl]_vars /\ WF_vars(CollectionChunkLoop)

\* ---------------------------------------------------------- scope actions
InitScope ==
  /\ InitLife
  /\ usesTimestamps = FALSE
  /\ qb = InitQb
  /\ RelIdle
  /\ ScopeIdle /\ ChunkIdle /\ PivotIdle /\ AuxIdle

ScopeDone(op, t, k, ret, excluded, isStatic) ==
  [op |-> op, type |-> t, key |-> k, ret |-> ret, excluded |-> excluded,
   registered |-> k \in scopeAdded[t], static |-> isStatic]

\* the number of scopes in the registry gs over the class names S
RECURSIVE registrySize(_, _)
registrySize(gs, S) ==
  IF S = {} THEN 0
  ELSE LET n == CHOOSE x \in S : TRUE
       IN Len(gs[n]) + registrySize(gs, S \ {n})

\* the number of keys the history holds over the types S
RECURSIVE addedSize(_, _)
addedSize(added, S) ==
  IF S = {} THEN 0
  ELSE LET t == CHOOSE x \in S : TRUE
       IN Cardinality(added[t]) + addedSize(added, S \ {t})

\* t.addGlobalScope(scope, name) called at millisecond ms
AddGlobalScope(t, scope, name, ms) ==
  LET k == scopeKey(scope, name, ms)
      gs == addGlobalScope(globalScopes, t, scope, name, ms)
      added == [scopeAdded EXCEPT ![t] = @ \cup {k}]
  IN /\ registrySize(gs, DOMAIN gs) <= MaxScopes
     /\ addedSize(added, Types) <= MaxScopes
     /\ globalScopes' = gs
     /\ scopeAdded' = added
     /\ scopeCallers' = scopeCallers \cup {t}
     /\ scopeLast' = ScopeDone("add", t, k, "void", {}, FALSE)
     /\ UNCHANGED <<scopeMeta, lifeVars, qb, relVars, chunkVars, pivotVars, auxVars>>

\* t.removeGlobalScope(k)
RemoveGlobalScope(t, k) ==
  LET r == removeGlobalScope(globalScopes, t, k)
  IN /\ globalScopes' = r.globalScopes
     /\ scopeAdded' = [scopeAdded EXCEPT ![t] = @ \ {k}]
     /\ scopeCallers' = scopeCallers \cup {t}
     /\ scopeLast' = ScopeDone("remove", t, k, IF r.ret THEN "true" ELSE "false", {}, FALSE)
     /\ UNCHANGED <<scopeMeta, lifeVars, qb, relVars, chunkVars, pivotVars, auxVars>>

\* qb = t.query()
TypeQuery(t) ==
  /\ qb' = query
  /\ scopeLast' = ScopeDone("query", t, "", "ok", {}, FALSE)
  /\ UNCHANGED <<globalScopes, scopeMeta, scopeAdded, scopeCallers,
                 lifeVars, relVars, chunkVars, pivotVars, auxVars>>

\* ScopeManager.applyGlobalScopes(q, t, excludedScopes) for a builder q
ApplyGlobalScopes(q, t, excludedScopes) ==
  /\ qb' = applyGlobalScopes(q, globalScopes, t, excludedScopes)
  /\ scopeLast' = ScopeDone("apply", t, "", "ok", excludedScopes, FALSE)
  /\ UNCHANGED <<globalScopes, scopeMeta, scopeAdded, scopeCallers,
                 lifeVars, relVars, chunkVars, pivotVars, auxVars>>

\* t.query().<member>(...) for a member that takes an exclusion or a role:
\* the builder is made, then the member is looked up on it and called
CallOnQuery(op, t, member, excludedScopes, role) ==
  /\ qb' = IF invoke(member) = "ok" /\ member \in LocalScopes
           THEN localScope(query, member, role)
           ELSE IF invoke(member) = "ok"
                THEN applyGlobalScopes(query, globalScopes, t, excludedScopes)
                ELSE query
  /\ scopeLast' = ScopeDone(op, t, member, invoke(member), excludedScopes, FALSE)
  /\ UNCHANGED <<globalScopes, scopeMeta, scopeAdded, scopeCallers,
                 lifeVars, relVars, chunkVars, pivotVars, auxVars>>

\* t.query().withoutGlobalScope(k)
WithoutGlobalScope(t, k) == CallOnQuery("without", t, "withoutGlobalScope", {k}, NULL)

\* t.query().withoutGlobalScopes()
WithoutGlobalScopes(t) == CallOnQuery("without", t, "withoutGlobalScopes", ScopeKeys, NULL)

\* t.query().<member>(role) for a local scope of t
CallScope(t, member, role) == CallOnQuery("scope", t, member, {}, role)

\* @Scope() on method propertyKey of class t
Decorate(t, isStatic, propertyKey) ==
  LET r == scopeDecorator(scopeMeta, t, isStatic, propertyKey)
  IN /\ Len(scopeMeta[t]) < MaxScopes
     /\ scopeMeta' = r.scopeMeta
     /\ scopeLast' = ScopeDone("decorate", t, propertyKey, r.ret, {}, isStatic)
     /\ UNCHANGED <<globalScopes, scopeAdded, scopeCallers,
                    lifeVars, qb, relVars, chunkVars, pivotVars, auxVars>>

\* the exclusion sets callers pass
Exclusions == {{}} \cup {{k} : k \in ScopeKeys} \cup {ScopeKeys}

\* the types whose queries are built
QueryTypes == {"UserA", "Post"}

\* registering scopes under their own key, building queries and applying
\* the registered scopes to them
NextScope ==
  \/ \E t \in QueryTypes, scope \in Scopes : AddGlobalScope(t, scope, "", 1)
  \/ \E t \in QueryTypes, k \in ScopeKeys : RemoveGlobalScope(t, k)
  \/ \E t \in QueryTypes : TypeQuery(t)
  \/ \E t \in QueryTypes, excludedScopes \in Exclusions :
       ApplyGlobalScopes(query, t, excludedScopes)
  \/ \E t \in QueryTypes, k \in ScopeKeys : WithoutGlobalScope(t, k)
  \/ \E t \in QueryTypes : WithoutGlobalScopes(t)

SpecScope == InitScope /\ [][NextScope]_vars

\* the registry before any registration, for a type without soft deletes
InitRegistry ==
  /\ LifeIdle
  /\ qb = InitQb
  /\ RelIdle
  /\ ScopeIdle /\ ChunkIdle /\ PivotIdle /\ AuxIdle

\* every way of registering and removing scopes, on every type
NextRegistry ==
  \/ \E t \in Types, scope \in Scopes, name \in ScopeNames, ms \in 1..2 :
       AddGlobalScope(t, scope, name, ms)
  \/ \E t \in Types, k \in ScopeKeys : RemoveGlobalScope(t, k)

SpecRegistry == InitRegistry /\ [][NextRegistry]_vars

\* declaring local scopes on the model classes and calling them
NextLocal ==
  \/ \E t \in Types, member \in LocalScopes, role \in 1..2 : CallScope(t, member, role)
  \/ \E t \in Types, isStatic \in BOOLEAN, propertyKey \in {"admin", "withRole"} :
       Decorate(t, isStatic, propertyKey)

SpecLocal == InitScope /\ [][NextLocal]_vars

\* ---------------------------------------------------------- chunk actions
\* a fetch count no chunk call over MaxChunkRows rows reaches
MaxFetches == MaxChunkRows + 2

\* a row of the table chunk iterates over
ChunkRow(id, name) ==
  [c \in Cols |-> CASE c = primaryKey -> id
                    [] c = "name" -> name
                    [] OTHER -> NULL]

ChunkTables ==
  UNION {[S -> {NULL, 1}] : S \in SUBSET (1..MaxChunkRows)}

\* the queries chunk is called on
ChunkQueries ==
  {query, where(query, "name", 1), orderBy(query, "desc"),
   limit(query, 1), offset(query, 1), limit(where(query, "name", 1), 2)}

InitChunk ==
  /\ usesSoftDeletes = FALSE
  /\ usesTimestamps = FALSE
  /\ \E names \in ChunkTables :
       table = [id \in DOMAIN names |-> ChunkRow(id, names[id])]
  /\ nextId = MaxChunkRows + 1
  /\ now = 1
  /\ live = [i \in Inst |-> FALSE]
  /\ attributes = [i \in Inst |-> EmptyAttributes]
  /\ original = [i \in Inst |-> EmptyAttributes]
  /\ exists = [i \in Inst |-> FALSE]
  /\ pkTouched = [i \in Inst |-> FALSE]
  /\ assignedKey = [i \in Inst |-> NULL]
  /\ storedKey = [i \in Inst |-> NULL]
  /\ insertedRow = [i \in Inst |-> NULL]
  /\ justDeleted = [i \in Inst |-> FALSE]
  /\ last = NoOp
  /\ qb \in ChunkQueries
  /\ RelIdle
  /\ ScopeIdle /\ ChunkIdle /\ PivotIdle /\ AuxIdle

\* the post-increment of the loop variable that leaves it as it was
nextPageStuck(page) == page

\* chunk line 332: page++
nextPage(page) == page + 1

\* qb.chunk(count, callback) is called with count = perPage:
\* `let page = 1; let countItems = 0`
ChunkCall(perPage) ==
  /\ chunkPc = "idle"
  /\ chunkSize' = perPage
  /\ chunkPage' = 1
  /\ chunkPc' = "fetch"
  /\ UNCHANGED <<chunkItems, chunkCalls, chunkFetches, chunkRet,
                 lifeVars, qb, relVars, scopeVars, pivotVars, auxVars>>

\* chunk lines 323-329: the page is fetched from a clone; an empty page
\* breaks out of the loop and chunk returns true
ChunkFetch ==
  LET items == get(table, forPage(clone(qb), chunkPage, chunkSize))
  IN /\ chunkPc = "fetch"
     /\ chunkFetches < MaxFetches
     /\ chunkFetches' = chunkFetches + 1
     /\ chunkItems' = items
     /\ IF Len(items) = 0
        THEN chunkPc' = "done" /\ chunkRet' = "true"
        ELSE chunkPc' = "callback" /\ UNCHANGED chunkRet
     /\ UNCHANGED <<chunkSize, chunkPage, chunkCalls,
                    lifeVars, qb, relVars, scopeVars, pivotVars, auxVars>>

\* chunk lines 331-336: the callback runs, page++, and the loop goes on
\* while the page was full
ChunkCallback ==
  /\ chunkPc = "callback"
  /\ chunkCalls' = Append(chunkCalls, [page |-> chunkPage, items |-> chunkItems])
  /\ chunkPage' = nextPage(chunkPage)
  /\ IF Len(chunkItems) = chunkSize
     THEN chunkPc' = "fetch" /\ UNCHANGED chunkRet
     ELSE chunkPc' = "done" /\ chunkRet' = "true"
  /\ UNCHANGED <<chunkSize, chunkItems, chunkFetches,
                 lifeVars, qb, relVars, scopeVars, pivotVars, auxVars>>

NextChunk ==
  \/ \E perPage \in 0..MaxPageSize : ChunkCall(perPage)
  \/ ChunkFetch
  \/ ChunkCallback

SpecChunk == InitChunk /\ [][NextChunk]_vars

\* the event loop runs every continuation that is ready
SpecChunkFair == SpecChunk /\ WF_vars(NextChunk)

\* ---------------------------------------------------------- pivot actions
\* the id arrays callers pass
IdLists == SeqsUpTo(Keys, 2)

\* the pivot attributes callers pass: none, the further column, or the
\* parent-key column itself
PivotExtras ==
  {NoAttributes, [NoAttributes EXCEPT !["x"] = 1],
   [NoAttributes EXCEPT ![foreignPivotKey] = MaxKey]}

\* the rows the pivot table may hold before the first call
StoredPivotRows ==
  {attachRecord(k, id, NoAttributes) : k \in Keys, id \in Keys}

InitPivot ==
  /\ LifeIdle
  /\ qb = InitQb
  /\ relKind = "belongsToMany"
  /\ parentKeys \in {<<1, 2>>, <<1, NULL>>}
  /\ relatedKeys = <<>>
  /\ pivot \in SeqsUpTo(StoredPivotRows, 1)
  /\ pivotDeclared = FALSE
  /\ joinDetect = FALSE
  /\ cache = [p \in 1..Len(parentKeys) |-> Unset]
  /\ lazy = [p \in 1..Len(parentKeys) |-> Unset]
  /\ eagerStatus = "none"
  /\ ScopeIdle /\ ChunkIdle /\ PivotIdle /\ AuxIdle

PivotDone(op, p, ids, extra, serial) ==
  [op |-> op, parent |-> p, ids |-> ids, extra |-> extra,
   serial |-> serial]

\* a store operation by one caller runs between the detach and the attach
\* of every sync that is suspended
disturb(t) ==
  [u \in Tasks |-> IF u # t /\ pending[u].pc = "attach"
                   THEN [pending[u] EXCEPT !.disturbed = TRUE] ELSE pending[u]]

\* await parent_p.R().attach(ids, extra)
Attach(p, ids, extra) ==
  LET pv == attach(pivot, parentKeys[p], ids, extra)
  IN /\ Len(pv) <= MaxPivot
     /\ pivot' = pv
     /\ pending' = disturb(0)
     /\ pivotLast' = PivotDone("attach", p, ids, extra, TRUE)
     /\ UNCHANGED <<relKind, parentKeys, relatedKeys, pivotDeclared, joinDetect,
                    cache, lazy, eagerStatus, lifeVars, qb, scopeVars, chunkVars, auxVars>>

\* await parent_p.R().detach(ids), or detach() / detach(null) when ~given
Detach(p, given, ids) ==
  /\ given \/ ids = <<>>
  /\ pivot' = detach(pivot, parentKeys[p], given, ids)
  /\ pending' = disturb(0)
  /\ pivotLast' = PivotDone(IF given THEN "detach" ELSE "detachAll", p, ids,
                            NoAttributes, TRUE)
  /\ UNCHANGED <<relKind, parentKeys, relatedKeys, pivotDeclared, joinDetect,
                 cache, lazy, eagerStatus, lifeVars, qb, scopeVars, chunkVars, auxVars>>

\* await parent_p.R().updateExistingPivot(ids, extra)
UpdateExistingPivot(p, ids, extra) ==
  /\ pivot' = updateExistingPivot(pivot, parentKeys[p], ids, extra)
  /\ pending' = disturb(0)
  /\ pivotLast' = PivotDone("updateExistingPivot", p, ids, extra, TRUE)
  /\ UNCHANGED <<relKind, parentKeys, relatedKeys, pivotDeclared, joinDetect,
                 cache, lazy, eagerStatus, lifeVars, qb, scopeVars, chunkVars, auxVars>>

\* task t calls parent_p.R().sync(ids, extra): `await this.detach()`
syncDetachStep(t, p, ids, extra) ==
  /\ pending[t].pc = "idle"
  /\ pivot' = detach(pivot, parentKeys[p], FALSE, <<>>)
  /\ pending' = [disturb(t) EXCEPT ![t] =
       [pc |-> "attach", parent |-> p, ids |-> ids, extra |-> extra,
        disturbed |-> FALSE]]
  /\ pivotLast' = PivotDone("syncDetach", p, ids, extra, TRUE)
  /\ UNCHANGED <<relKind, parentKeys, relatedKeys, pivotDeclared, joinDetect,
                 cache, lazy, eagerStatus, lifeVars, qb, scopeVars, chunkVars>>

SyncDetach(t, p, ids, extra) ==
  syncDetachStep(t, p, ids, extra) /\ UNCHANGED auxVars

\* task t resumes in sync: the attach, when ids is not empty, and the return
syncAttachStep(t) ==
  LET c == pending[t]
      pv == IF syncAttaches(c.ids)
            THEN attach(pivot, parentKeys[c.parent], c.ids, c.extra)
            ELSE pivot
  IN /\ c.pc = "attach"
     /\ Len(pv) <= MaxPivot
     /\ pivot' = pv
     /\ pending' = [disturb(t) EXCEPT ![t] = NoSync]
     /\ pivotLast' = PivotDone("sync", c.parent, c.ids, c.extra, ~c.disturbed)
     /\ UNCHANGED <<relKind, parentKeys, relatedKeys, pivotDeclared, joinDetect,
                    cache, lazy, eagerStatus, lifeVars, qb, scopeVars, chunkVars>>

SyncAttach(t) == syncAttachStep(t) /\ UNCHANGED auxVars

\* attach, detach, updateExistingPivot and the sync(ids) calls of one task,
\* which the other calls may run in between
NextPivot ==
  \/ \E p \in 1..Len(parentKeys), ids \in IdLists, extra \in PivotExtras :
       Attach(p, ids, extra)
  \/ \E p \in 1..Len(parentKeys), given \in BOOLEAN, ids \in IdLists : Detach(p, given, ids)
  \/ \E p \in 1..Len(parentKeys), ids \in IdLists, extra \in PivotExtras :
       UpdateExistingPivot(p, ids, extra)
  \/ \E p \in 1..Len(parentKeys), ids \in IdLists : SyncDetach(1, p, ids, NoAttributes)
  \/ SyncAttach(1)

SpecPivot == InitPivot /\ [][NextPivot]_vars

\* ------------------------------------------------- interleaved sync calls
\* id lists without a repeated id
IdSets == {ids \in IdLists : \A m, n \in 1..Len(ids) : ids[m] = ids[n] => m = n}

\* task t calls parent_p.R().sync(ids), once, and is suspended at the
\* store's delete
TaskSyncDetach(t, p, ids) ==
  /\ ~syncLog[t].called
  /\ syncDetachStep(t, p, ids, NoAttributes)
  /\ syncLog' = [syncLog EXCEPT ![t] =
       [called |-> TRUE, done |-> FALSE, parent |-> p, ids |-> ids]]
  /\ UNCHANGED auxButSync

\* task t resumes after the delete: the attach and the return of sync
TaskSyncAttach(t) ==
  /\ syncAttachStep(t)
  /\ syncLog' = [syncLog EXCEPT ![t].done = TRUE]
  /\ UNCHANGED auxButSync

NextSync ==
  \/ \E t \in Tasks, p \in 1..Len(parentKeys), ids \in IdSets : TaskSyncDetach(t, p, ids)
  \/ \E t \in Tasks : TaskSyncAttach(t)

SpecSync == InitPivot /\ [][NextSync]_vars

\* ------------------------------------------------------- lifecycle claims
IsSave(l) == l.op \in {"save", "update"}

\* C4: soft-delete round trip on one instance: after delete() the row is
\* still in the table but absent from the default get()/find(); a restore()
\* that follows on the same instance returns true, clears the deleted
\* timestamp on the row and on the instance, and the row is back in the
\* default get()/find().
C4_SoftDeleteRoundTrip ==
  LET i == last.inst
      k == last.rowId
  IN /\ (last.op = "delete" /\ last.ret = "true" /\ usesSoftDeletes
           /\ k \in DOMAIN table)
        => /\ table[k][DELETED_AT] # NULL
           /\ k \notin DefaultGet
           /\ find(table, query, k) = NULL
     /\ (last.op = "restore" /\ last.afterDelete /\ usesSoftDeletes
           /\ getKey(attributes[i]) \in DOMAIN table)
        => /\ last.ret = "true"
           /\ table[getKey(attributes[i])][DELETED_AT] = NULL
           /\ attributes[i][DELETED_AT] = NULL
           /\ getKey(attributes[i]) \in DefaultGet
           /\ find(table, query, getKey(attributes[i])) = getKey(attributes[i])

\* C5: delete() on an existing instance of a soft-deletable type leaves the
\* row in place with its deleted timestamp set, and the instance's exists
\* flag stays true (it becomes false on a hard delete only).
C5_ExistsKeptOnSoftDelete ==
  (last.op = "delete" /\ last.preExists /\ usesSoftDeletes
     /\ last.rowId \in DOMAIN table)
  => /\ table[last.rowId][DELETED_AT] # NULL
     /\ exists[last.inst]

\* the three parts of the primary-key invariant, for instance i
PkUnsetWhileTransient(i) ==
  (~exists[i] /\ assignedKey[i] = NULL) => attributes[i][primaryKey] = UNSET

PkAssignedByInsert(i) ==
  (IsSave(last) /\ last.inst = i /\ last.path = "insert" /\ last.rowId # NULL
     /\ last.idReturned)
  => /\ attributes[i][primaryKey] = last.rowId
     /\ exists[i]

PkNeverChanges(i) ==
  assignedKey[i] # NULL => attributes[i][primaryKey] = assignedKey[i]

\* C6 as stated: over any sequence of constructor / fill / setAttribute /
\* save / update / delete calls the primary key is unset while the instance
\* is transient, is assigned by a successful insert, and never changes once
\* assigned.
C6_PrimaryKeyInvariantAnyCalls ==
  \A i \in Inst : live[i] =>
    PkUnsetWhileTransient(i) /\ PkAssignedByInsert(i) /\ PkNeverChanges(i)

\* C6 amended: the same invariant, for instances whose constructor / fill /
\* setAttribute / update arguments never named the primary-key column.
C6_PrimaryKeyInvariant ==
  \A i \in Inst : (live[i] /\ ~pkTouched[i]) =>
    PkUnsetWhileTransient(i) /\ PkAssignedByInsert(i) /\ PkNeverChanges(i)

C6_Witness ==
  \E i \in Inst :
    /\ live[i] /\ ~pkTouched[i] /\ exists[i]
    /\ last.op = "save" /\ last.inst = i /\ last.path = "update"
    /\ assignedKey[i] # NULL /\ attributes[i][primaryKey] = assignedKey[i]

\* C7: save() on an instance with exists = true and timestamps enabled
\* writes the time of that save to the row's updated column, whatever the
\* instance carried before, and writes to no row but the one whose primary
\* key is the instance's current key.
C7_UpdateRestamps ==
  [][\A i \in Inst :
       (/\ usesTimestamps /\ live[i] /\ exists[i]
        /\ getKey(attributes[i]) \in Matching(table, query)
        /\ (Save(i, TRUE) \/ Save(i, FALSE)))
       => /\ table'[getKey(attributes[i])][UPDATED_AT] = now'
          /\ \A o \in DOMAIN table \ {getKey(attributes[i])} : table'[o] = table[o]]_vars

\* C8: after save() on a transient instance of a timestamp-enabled type the
\* instance itself carries created_at, updated_at and its generated key.
C8_InstanceCarriesTimestamps ==
  (last.op = "save" /\ last.path = "insert" /\ last.rowId # NULL
     /\ last.idReturned /\ usesTimestamps)
  => /\ ~Falsy(attributes[last.inst][CREATED_AT])
     /\ ~Falsy(attributes[last.inst][UPDATED_AT])
     /\ attributes[last.inst][primaryKey] = last.rowId

\* C9: right after hydration from a row and right after every completed
\* save() the `original` snapshot equals the attribute map.
C9_SnapshotEqualsAttributes ==
  ((last.op = "find" /\ last.ret = "found") \/ (IsSave(last) /\ last.ret = "ok"))
  => original[last.inst] = attributes[last.inst]

\* C10: when the store's insert returns no generated identifier, save()
\* raises no error, leaves the primary-key attribute as it was (unset) and
\* does not mark the instance as existing.
C10_NoGeneratedKey ==
  (last.op = "save" /\ last.path = "insert" /\ last.rowId # NULL
     /\ ~last.idReturned)
  => /\ last.ret = "ok"
     /\ attributes[last.inst][primaryKey] = last.prePk
     /\ ~exists[last.inst]

C10_Witness ==
  /\ last.op = "save" /\ last.path = "insert" /\ last.rowId # NULL
  /\ ~last.idReturned /\ last.prePk = UNSET
  /\ last.rowId \in DOMAIN table
  /\ attributes[last.inst][primaryKey] = UNSET
  /\ ~exists[last.inst]

\* ----------------------------------------------------------- query claims
NotDeleted(id) == table[id][DELETED_AT] = NULL

\* C3: on a soft-deletable type, a query obtained from Type.query() and
\* refined by any chain of where / orWhere / whereIn / whereNotIn /
\* whereNull / whereNotNull / orderBy / limit / offset / clone returns no
\* soft-deleted row from get, first or find, and counts none.
C3_SoftDeletedExcluded ==
  usesSoftDeletes =>
    /\ \A id \in Range(get(table, qb)) : NotDeleted(id)
    /\ first(table, qb) # NULL => NotDeleted(first(table, qb))
    /\ \A k \in DOMAIN table :
         find(table, qb, k) # NULL => NotDeleted(find(table, qb, k))
    /\ count(table, qb) <= Cardinality({id \in DOMAIN table : NotDeleted(id)})

\* -------------------------------------------------------- relation claims
\* the related rows whose join column equals parent p's key, in table order
RelatedOf(p) ==
  SelectSeq([j \in 1..Len(relatedKeys) |-> j],
            LAMBDA j : parentKeys[p] # NULL /\ relatedKeys[j] = parentKeys[p])

\* C1: with(R).get() on a one-to-many relation gives EVERY parent returned
\* exactly the related rows whose foreign key equals its local key, and an
\* empty list when there is none; parents 1, 2 and rows A(fk=1), B(fk=1),
\* C(fk=2) give parent 1 [A, B] and parent 2 [C].  The local key is the
\* parents' primary key, so the parents considered all carry one.
C1_EagerHasManyEveryParent ==
  (/\ relKind = "hasMany" /\ eagerStatus # "none"
   /\ \A p \in 1..Len(parentKeys) : parentKeys[p] # NULL)
  => /\ eagerStatus = "ok"
     /\ \A p \in 1..Len(parentKeys) : cache[p] = Many(RelatedOf(p))
     /\ (parentKeys = <<1, 2>> /\ relatedKeys = <<1, 1, 2>>)
        => cache = <<Many(<<1, 2>>), Many(<<3>>)>>

\* C2: for each of the four relation kinds and every parent, the value
\* with(R).get() puts in the parent's relation cache equals the value of
\* lazily resolving R on that parent with getResults().
C2_EagerEqualsLazy ==
  \A p \in 1..Len(parentKeys) :
    (eagerStatus # "none" /\ lazy[p] # Unset) => cache[p] = lazy[p]

\* the columns the caller writes: not the generated key, not the stamps
CallerCols == Cols \ {primaryKey, CREATED_AT, UPDATED_AT}

\* Type.find(i.getKey()) returns an instance with exists = true that agrees
\* with instance i on the caller's columns
RoundTrip(i) ==
  LET rid == find(table, query, getKey(attributes[i]))
  IN /\ rid # NULL
     /\ hydrate(table[rid]).exists
     /\ \A c \in CallerCols :
          getAttribute(hydrate(table[rid]).attributes, c) = getAttribute(attributes[i], c)

\* instance i holds a key after the last save, and on the update path it is
\* the key its row was stored under
KeyKept(i) ==
  /\ getKey(attributes[i]) # NULL
  /\ last.path = "update" => getKey(attributes[i]) = storedKey[i]

scopePredicate(scope) == whereClause("and", scope.col, scope.val)

\* the predicates of the scopes registered for t whose key is not in
\* excludedScopes, in registration order
injected(t, excludedScopes) ==
  LET kept == SelectSeq(getGlobalScopes(globalScopes, t),
                        LAMBDA e : e.key \notin excludedScopes)
  IN [n \in 1..Len(kept) |-> scopePredicate(kept[n].scope)]

\* C12: the query specification t.query() returns holds, after the
\* soft-delete predicate, the predicate of every global scope registered for
\* t, in registration order
C12_QueryCarriesGlobalScopes ==
  scopeLast.op = "query" =>
    qb.wheres = getBaseQuery \o injected(scopeLast.type, {})

\* ScopeManager.applyGlobalScopes on a new builder injects exactly the
\* registered scopes outside the exclusion set, once each, in order
ApplyInjectsNonExcluded ==
  scopeLast.op = "apply" =>
    qb.wheres = getBaseQuery \o injected(scopeLast.type, scopeLast.excluded)

\* t.query().withoutGlobalScope(X) / withoutGlobalScopes() returns a query
\* with the scopes outside the exclusion set
WithoutKeepsOthers ==
  scopeLast.op = "without" =>
    /\ scopeLast.ret = "ok"
    /\ qb.wheres = getBaseQuery \o injected(scopeLast.type, scopeLast.excluded)

\* C13: applying the global scopes of a type with an exclusion set, through
\* applyGlobalScopes or through withoutGlobalScope(X) / withoutGlobalScopes()
\* on a query, injects no excluded scope and every other registered scope
\* exactly once, in registration order
C13_ScopeExclusion == ApplyInjectsNonExcluded /\ WithoutKeepsOthers

\* getGlobalScopes(t) holds exactly the keys added for t and not removed since
KeysAsAdded(t) == mapKeys(getGlobalScopes(globalScopes, t)) = scopeAdded[t]

\* the last removeGlobalScope returned true exactly when its key was
\* registered for its type, and the key is gone
RemoveReturns ==
  scopeLast.op = "remove" =>
    /\ (scopeLast.ret = "true") <=> scopeLast.registered
    /\ scopeLast.key \notin mapKeys(getGlobalScopes(globalScopes, scopeLast.type))

\* a removeGlobalScope that returns false leaves the registry as it was
FalseRemoveChangesNothing ==
  (scopeLast'.op = "remove" /\ scopeLast'.ret = "false") => globalScopes' = globalScopes

\* C14: after any addGlobalScope / removeGlobalScope calls the registry of
\* each type holds exactly the keys added for it and not removed since,
\* removeGlobalScope returns true exactly when the key was registered, and a
\* false return changes nothing
C14_RegistryBookkeeping ==
  [][(\A t \in Types : KeysAsAdded(t))' /\ RemoveReturns' /\ FalseRemoveChangesNothing]_vars

\* no other class with the name of t has called the scope manager
Alone(t) == \A u \in scopeCallers : className(u) = className(t) => u = t

\* the bookkeeping of C14 for the types whose class name no other calling
\* class carries
RegistryKeptAlone ==
  [][/\ \A t \in Types : Alone(t)' => KeysAsAdded(t)'
     /\ Alone(scopeLast'.type) => RemoveReturns'
     /\ FalseRemoveChangesNothing]_vars

\* C15: calling a declared local scope by its scope name on the query
\* specification t.query() returns succeeds and yields that specification
\* with the scope's transform applied, the extra argument forwarded
C15_LocalScopeCallable ==
  scopeLast.op = "scope" =>
    /\ scopeLast.ret = "ok"
    /\ \E role \in 1..2 : qb = localScope(query, scopeLast.key, role)

\* C16: @Scope() on a static method succeeds and lists the method in the
\* class's scope metadata; it raises only on a method that is not static
C16_ScopeDecoratorOnStatic ==
  scopeLast.op = "decorate" =>
    /\ scopeLast.static =>
         /\ scopeLast.ret = "ok"
         /\ scopeLast.key \in Range(getScopeMetadata(scopeMeta, scopeLast.type))
    /\ scopeLast.ret = "Error" => ~scopeLast.static

\* the rows of the pages handed to the callback, one after the other
RECURSIVE pagesFrom(_, _)
pagesFrom(calls, n) ==
  IF n > Len(calls) THEN <<>> ELSE calls[n].items \o pagesFrom(calls, n + 1)

\* ceil(n / k) for k >= 1
ceilDiv(n, k) == (n + k - 1) \div k

\* the callback ran ceil(N/k) times with pages 1, 2, ... in order, never with
\* an empty page, and the pages concatenated are the query's full result
Covered ==
  LET full == get(table, qb)
  IN /\ Len(chunkCalls) = ceilDiv(Len(full), chunkSize)
     /\ \A n \in 1..Len(chunkCalls) :
          chunkCalls[n].page = n /\ chunkCalls[n].items # <<>>
     /\ pagesFrom(chunkCalls, 1) = full

\* the statement for every query, whatever limit or offset it carries
C17_ChunkCoverageAnyQuery ==
  (chunkPc = "done" /\ chunkSize >= 1) => Covered

\* C17: for an unchanging table, a page size k >= 1 and a query that sets no
\* limit or offset of its own and returns N rows, chunk(k, cb) calls cb
\* exactly ceil(N/k) times with page numbers 1, 2, ... in order, never with
\* an empty page, and the pages concatenated equal the query's full ordered
\* result, every row once
C17_ChunkCoverage ==
  (chunkPc = "done" /\ chunkSize >= 1 /\ qb.limit = UNSET /\ qb.offset = UNSET)
    => Covered

\* a chunk over an exact multiple of the page size, in two pages or more
C17_Witness ==
  /\ chunkPc = "done" /\ chunkSize >= 1 /\ qb.limit = UNSET /\ qb.offset = UNSET
  /\ Len(chunkCalls) >= 2
  /\ Len(get(table, qb)) = Len(chunkCalls) * chunkSize
  /\ Covered

\* every page before the last fetched one was full, and the loop stops at
\* the first page that is not
StopsAtShortPage ==
  /\ \A n \in 1..Len(chunkCalls) :
       (n < Len(chunkCalls) \/ chunkPc = "fetch") => Len(chunkCalls[n].items) = chunkSize
  /\ chunkPc = "done" =>
       /\ Len(chunkItems) < chunkSize \/ Len(chunkItems) = 0
       /\ chunkRet = "true"
       /\ chunkFetches <= Cardinality(DOMAIN table) + 1

rowsOfParent(pv, k) == SelectSeq(pv, LAMBDA row : row[foreignPivotKey] = k)
rowsOfOthers(pv, k) == SelectSeq(pv, LAMBDA row : row[foreignPivotKey] # k)

\* the related keys in the pivot rows of the parent with key k
relatedKeysOf(pv, k) == {row[relatedPivotKey] : row \in Range(rowsOfParent(pv, k))}

\* the last operation was a sync(ids) that ran from its detach to its attach
\* with no other pivot operation in between
SyncCompleted ==
  pivotLast.op = "sync" /\ pivotLast.serial /\ pivotLast.extra = NoAttributes

\* the statement for every parent, with or without a key
C19_SyncReplacesAnyParent ==
  SyncCompleted =>
    relatedKeysOf(pivot, parentKeys[pivotLast.parent]) = Range(pivotLast.ids)

\* C19: for a parent that has a key, whatever pivot rows it had before,
\* after sync(ids) completes the related keys in the parent's pivot rows are
\* exactly the given ids; sync([]) leaves the parent with no pivot row
C19_SyncReplaces ==
  (SyncCompleted /\ parentKeys[pivotLast.parent] # NULL) =>
    relatedKeysOf(pivot, parentKeys[pivotLast.parent]) = Range(pivotLast.ids)

\* a sync of a keyed parent to a non-empty id list, next to another
\* parent's row
C19_Witness ==
  /\ SyncCompleted /\ parentKeys[pivotLast.parent] # NULL
  /\ Len(pivotLast.ids) >= 1
  /\ relatedKeysOf(pivot, parentKeys[pivotLast.parent]) = Range(pivotLast.ids)
  /\ rowsOfOthers(pivot, parentKeys[pivotLast.parent]) # <<>>

\* the pivot row {parent key, id, extra}
expectedRow(k, id, extra) ==
  [c \in PivotCols |-> IF c = foreignPivotKey THEN k
                       ELSE IF c = relatedPivotKey THEN id
                       ELSE IF extra[c] # UNSET THEN extra[c] ELSE NULL]

\* what the operation l on the parent with key k did to the pivot table,
\* from `before` to `after`
TouchesOnlyNamed(l, k, before, after) ==
  /\ l.op = "attach" =>
       after = before \o [n \in 1..Len(l.ids) |-> expectedRow(k, l.ids[n], l.extra)]
  /\ l.op = "detach" =>
       after = SelectSeq(before, LAMBDA row :
                 ~(row[foreignPivotKey] = k /\ row[relatedPivotKey] \in Range(l.ids)))
  /\ l.op = "detachAll" => after = rowsOfOthers(before, k)
  /\ l.op = "updateExistingPivot" =>
       /\ Len(after) = Len(before)
       /\ \A n \in 1..Len(before) :
            after[n] # before[n] =>
              (before[n][foreignPivotKey] = k /\ before[n][relatedPivotKey] \in Range(l.ids))
  /\ l.op # "none" => rowsOfOthers(after, k) = rowsOfOthers(before, k)

\* the extra attributes name a key column of the pivot
NamesKey(extra) == extra[foreignPivotKey] # UNSET \/ extra[relatedPivotKey] # UNSET

\* the statement for every parent and every extra attribute map
C20_PivotFrameAnyCall ==
  [][TouchesOnlyNamed(pivotLast', parentKeys[pivotLast'.parent], pivot, pivot')]_vars

\* C20: on a parent P that has a key, with extra attributes that name no key
\* column: attach(ids, extra) inserts exactly one pivot row {P's key, id,
\* extra} per given id and changes no existing row; detach(ids) deletes
\* exactly P's rows whose related key is in ids and detach() all of P's rows;
\* updateExistingPivot(ids, attrs) changes only P's rows with related key in
\* ids; and no operation on P, sync included, inserts, changes or deletes a
\* row of another parent
C20_PivotFrame ==
  [][(parentKeys[pivotLast'.parent] # NULL /\ ~NamesKey(pivotLast'.extra))
       => TouchesOnlyNamed(pivotLast', parentKeys[pivotLast'.parent], pivot, pivot')]_vars

\* an attach with an extra attribute put a row next to another parent's row
C20_Witness ==
  /\ pivotLast.op = "attach" /\ parentKeys[pivotLast.parent] # NULL
  /\ ~NamesKey(pivotLast.extra) /\ pivotLast.extra # NoAttributes
  /\ Len(pivotLast.ids) >= 1
  /\ rowsOfParent(pivot, parentKeys[pivotLast.parent]) # <<>>
  /\ rowsOfOthers(pivot, parentKeys[pivotLast.parent]) # <<>>

\* the scopes getGlobalScopes(t) returns and applyGlobalScopes runs for t
\* are scopes t registered itself
OwnScopesOnly(t) ==
  /\ mapKeys(getGlobalScopes(globalScopes, t)) \subseteq scopeAdded[t]
  /\ Len(applyGlobalScopes(query, globalScopes, t, {}).wheres)
       <= Len(getBaseQuery) + Cardinality(scopeAdded[t])

\* a removeGlobalScope on one type leaves the registered scopes of type a
RemoveSpares(a) ==
  (scopeLast'.op = "remove" /\ scopeLast'.type # a) =>
    \A k \in scopeAdded[a] :
      k \in mapKeys(getGlobalScopes(globalScopes, a)) =>
        k \in mapKeys(getGlobalScopes(globalScopes, a))'

\* C30: a scope registered for type A is never returned by getGlobalScopes(B)
\* nor run by applyGlobalScopes for another type B, and removeGlobalScope on B
\* never removes a scope of A, for any two distinct classes, two classes of
\* the same class name included
C30_ScopeIsolation ==
  [][\A t \in Types : OwnScopesOnly(t)' /\ RemoveSpares(t)]_vars

\* the isolation of C30 between classes of different class names
IsolatedByName ==
  [][\A a \in Types :
       /\ \A k \in mapKeys(getGlobalScopes(globalScopes, a))' :
            \E u \in Types : className(u) = className(a) /\ k \in scopeAdded[u]'
       /\ (scopeLast'.op = "remove" /\ className(scopeLast'.type) # className(a)) =>
            getGlobalScopes(globalScopes, a)' = getGlobalScopes(globalScopes, a)]_vars

\* the number of related rows relation R links to parent p: the rows whose
\* join column equals the parent's key, at most one for a relation to one
\* row, and the related rows joined through p's pivot rows for many-to-many
relatedCount(p) ==
  CASE relKind = "hasMany" -> Len(RelatedOf(p))
    [] relKind \in {"hasOne", "belongsTo"} -> IF RelatedOf(p) = <<>> THEN 0 ELSE 1
    [] OTHER -> Cardinality({x \in DOMAIN joinTable :
                               parentKeys[p] # NULL /\ joinTable[x].fpk = parentKeys[p]})

\* C21: after withCount(R).get(), every returned parent has R_count equal to
\* the number of related rows loading R gives that parent, 0 when there is
\* none or when the parent's join key is unset, and the count leaves the
\* parent's relation cache as it was
C21_WithCountMatchesRelated ==
  [][(relationCount' # relationCount) =>
       /\ \A p \in 1..Len(parentKeys) : relationCount'[p] = relatedCount(p)
       /\ cache' = cache]_vars

\* for a one-to-many relation the count is the number of related rows, and
\* for every kind a parent without a key counts 0 and the cache is kept
CountOfHasMany ==
  [][(relationCount' # relationCount) =>
       /\ relKind = "hasMany" =>
            \A p \in 1..Len(parentKeys) : relationCount'[p] = relatedCount(p)
       /\ \A p \in 1..Len(parentKeys) : parentKeys[p] = NULL => relationCount'[p] = 0
       /\ cache' = cache]_vars

\* parent p has no related row through R
Absent(p) == relatedCount(p) = 0

\* the value of a relation without related rows: the empty collection for a
\* relation to many rows, null for a relation to one row
absenceDefault == IF relKind \in {"hasMany", "belongsToMany"} THEN Many(<<>>) ELSE Null

\* C22: resolving a relation to many rows for a parent without matching
\* related rows yields an empty collection, resolving a relation to one row
\* for a parent without a matching row (a many-to-one parent with a null
\* foreign key included) yields null and never an unrelated row, for lazy
\* getResults() and for eager loading
C22_AbsenceDefaults ==
  \A p \in 1..Len(parentKeys) :
    Absent(p) =>
      /\ lazy[p] # Unset => lazy[p] = absenceDefault
      /\ eagerStatus # "none" => cache[p] = absenceDefault

\* what holds of C22: eager loading that completes gives every parent without
\* related rows the default, and so does getResults() of a one-to-many,
\* one-to-one or many-to-one relation for a parent whose key is set
AbsenceDefaultsKeyed ==
  \A p \in 1..Len(parentKeys) :
    Absent(p) =>
      /\ (lazy[p] # Unset /\ parentKeys[p] # NULL /\ relKind # "belongsToMany")
           => lazy[p] = absenceDefault
      /\ eagerStatus = "ok" => cache[p] = absenceDefault

\* the related rows linked to parent p by a pivot row, one per pivot row, in
\* the order of the join
LinkedTo(p) ==
  LET N == Len(relatedKeys) * Len(pivot)
      hits == SelectSeq([x \in 1..N |-> x],
                        LAMBDA x : /\ x \in DOMAIN joinTable
                                   /\ parentKeys[p] # NULL
                                   /\ joinTable[x].fpk = parentKeys[p])
  IN [n \in 1..Len(hits) |-> joinRel(hits[n])]

\* C25: with(R).get() on a many-to-many relation fetches once, groups the
\* fetched rows by the pivot's parent-key value and assigns every parent
\* exactly the related rows a pivot row links to it, an empty list when it
\* has none, also when the caller requested no pivot column with withPivot
C25_EagerManyToMany ==
  (relKind = "belongsToMany" /\ eagerStatus # "none") =>
    /\ eagerStatus = "ok"
    /\ \A p \in 1..Len(parentKeys) : cache[p] = Many(LinkedTo(p))

\* what holds of C25: when R's method requests the pivot's parent-key column
\* with withPivot and the first parent has no key (so that the relation's
\* constructor set no join), every parent gets its linked rows
EagerManyToManyKeylessFirst ==
  (/\ relKind = "belongsToMany" /\ eagerStatus # "none"
   /\ pivotDeclared /\ parentKeys[1] = NULL) =>
    /\ eagerStatus = "ok"
    /\ \A p \in 1..Len(parentKeys) : cache[p] = Many(LinkedTo(p))

\* C27: when sync(A) and sync(B) on the same parent run as tasks that may be
\* suspended at each store operation, then after both have completed the
\* related keys in the parent's pivot rows are A or are B, with at most one
\* pivot row per related key
C27_InterleavedSyncSerializable ==
  (/\ syncLog[1].done /\ syncLog[2].done
   /\ syncLog[1].parent = syncLog[2].parent
   /\ parentKeys[syncLog[1].parent] # NULL) =>
    LET k == parentKeys[syncLog[1].parent]
        rows == rowsOfParent(pivot, k)
    IN /\ relatedKeysOf(pivot, k) \in {Range(syncLog[1].ids), Range(syncLog[2].ids)}
       /\ \A m, n \in 1..Len(rows) :
            rows[m][relatedPivotKey] = rows[n][relatedPivotKey] => m = n

\* what holds of C27: every related key left in the parent's pivot rows comes
\* from A or from B, and the keys of the sync whose attach ran last are there
InterleavedSyncUnion ==
  (/\ syncLog[1].done /\ syncLog[2].done
   /\ syncLog[1].parent = syncLog[2].parent
   /\ parentKeys[syncLog[1].parent] # NULL) =>
    LET k == parentKeys[syncLog[1].parent]
    IN /\ relatedKeysOf(pivot, k) \subseteq
            Range(syncLog[1].ids) \cup Range(syncLog[2].ids)
       /\ Range(pivotLast.ids) \subseteq relatedKeysOf(pivot, k)

\* a save() or update() call on instance i runs in this step
SaveCallOn(i) ==
  \E idReturned \in BOOLEAN :
    \/ Save(i, idReturned)
    \/ \E given \in GivenAttrs : Update(i, given, idReturned)

\* C29: over any sequence of save() and update() calls on one instance, with
\* no delete in between, the store receives at most one insert for that
\* instance: every call after its first completed insert is an update of that
\* same row, also when the store's insert reported no generated identifier
C29_AtMostOneInsert ==
  [][\A i \in Inst :
       (insertedRow[i] # NULL /\ SaveCallOn(i)) =>
         /\ last'.path = "update" /\ last'.ret = "ok"
         /\ last'.rowId = insertedRow[i]]_vars

\* what holds of C29: when the insert handed back an identifier and no caller
\* passed the primary key since, every later call is an update of that row
OneInsertWhenIdReturned ==
  [][\A i \in Inst :
       (/\ insertedRow[i] # NULL /\ storedKey[i] = insertedRow[i]
        /\ exists[i] /\ ~pkTouched[i]
        /\ \E idReturned \in BOOLEAN :
             \/ Save(i, idReturned)
             \/ \E given \in GivenAttrs :
                  given[primaryKey] = UNSET /\ Update(i, given, idReturned))
       => /\ last'.path = "update" /\ last'.ret = "ok"
          /\ last'.rowId = insertedRow[i]]_vars

\* reading R on model p, once R is resolved, returns the cached value and
\* fetches nothing
ReadsCached(p) ==
  (cache[p] # Unset /\ MagicGet(p)) =>
    /\ cacheLast'.ret = cache[p]
    /\ ~cacheLast'.fetched

\* only setRelation(R, v) changes a resolved entry of p, and a read of R on
\* p leaves the entries of the other models alone
CacheKept(p) ==
  /\ (cache[p] # Unset /\ cache'[p] # cache[p]) => \E v \in SetValues : SetRelation(p, v)
  /\ MagicGet(p) => \A o \in (1..Len(parentKeys)) \ {p} : cache'[o] = cache[o]

C24_GetConnectionLiveOrError ==
  connLast.op = "getConnection" =>
    \/ connLast.ret = "error"
    \/ /\ connLast.ret = "conn"
       /\ connLast.conn # NULL
       /\ connLast.conn \notin destroyed
       /\ connLast.conn = connections[connLast.resolved]

\* what holds of C24: the statement while the default name is 'default'
GetConnectionWithStockDefault ==
  (connLast.op = "getConnection" /\ defaultConnection = "default") =>
    \/ connLast.ret = "error"
    \/ /\ connLast.ret = "conn"
       /\ connLast.conn # NULL
       /\ connLast.conn \notin destroyed
       /\ connLast.conn = connections[connLast.resolved]

\* the batch numbers of a migrations table
Batches(ran) == {ran[n].batch : n \in 1..Len(ran)}

\* the migrate() that ran last applied at least one migration: the rows it
\* added carry the applied names in file-name order and one new batch number
LoggedUnderNewBatch ==
  (migLast.op = "migrate" /\ migLast.ret # <<>>) =>
    LET old == migLast.before
        batch == IF old = <<>> THEN 1
                 ELSE (CHOOSE b \in Batches(old) : \A c \in Batches(old) : c <= b) + 1
    IN /\ Len(migrations) = Len(old) + Len(migLast.ret)
       /\ \A n \in 1..Len(old) : migrations[n] = old[n]
       /\ \A n \in 1..Len(migLast.ret) :
            /\ migrations[Len(old) + n].name = migLast.ret[n]
            /\ migrations[Len(old) + n].batch = batch
       /\ \A m, n \in 1..Len(migLast.ret) : m < n => migLast.ret[m] <= migLast.ret[n]

\* the rollback() that ran last followed such a migrate(): it called down()
\* on the applied migrations in reverse order and left the table as it was
\* before the migrate()
RolledBack ==
  (/\ migLast.op = "rollback" /\ ~migLast.bodyThrew
   /\ migLast.prev = "migrate" /\ migLast.prevRet # <<>>) =>
    /\ migLast.downs = Reverse(migLast.prevRet)
    /\ migrations = migLast.prevBefore

\* C26: a migrate() call that applies at least one pending migration logs all
\* of them under one new batch number (previous maximum + 1, starting at 1)
\* in file-name order; a following rollback() calls down() on exactly those
\* migrations in reverse order and removes exactly their log entries, leaving
\* earlier batches in place, so the log equals its state before migrate()
C26_MigrateRollbackRoundTrip == LoggedUnderNewBatch /\ RolledBack

\* what holds of C26: the logging of migrate(), and the round trip when every
\* applied migration has a .ts file and no .js file of the same name was run
RoundTripOfTsFiles ==
  /\ LoggedUnderNewBatch
  /\ (/\ \A n \in 1..Len(migLast.prevRet) :
           [name |-> migLast.prevRet[n], ext |-> "ts"] \in migLast.dir
      /\ \A m, n \in 1..Len(migLast.prevRet) :
           migLast.prevRet[m] = migLast.prevRet[n] => m = n)
     => RolledBack

\* the chunks of a returned collection, one after the other
RECURSIVE chunksJoined(_)
chunksJoined(cs) == IF cs = <<>> THEN <<>> ELSE Head(cs) \o chunksJoined(Tail(cs))

\* chunk has returned a collection of chunks of the receiver, which still
\* holds its items
ChunkReturned ==
  /\ collPc = "done"
  /\ collItems = collReceived
  /\ chunksJoined(collChunks) = collItems

\* C28: Collection.chunk(size) terminates and returns a new collection of
\* chunks for every integer size, 0 and negative values included, and every
\* collection, leaving the receiver unchanged
C28_ChunkTerminates == (collPc = "loop") ~> ChunkReturned

\* what holds of C28: chunk returns for a positive size or an empty receiver
ChunkTerminatesPositive ==
  (collPc = "loop" /\ (collSize >= 1 \/ collItems = <<>>)) ~> ChunkReturned

\* the loop variable of chunk advances in every iteration
ChunkLoopAdvances == [][CollectionChunkLoop /\ collPc' = "loop" => collI' > collI]_vars

====
